---- MODULE Spec2Model ----
(***************************************************************************)
(* Credit metering and webhook reconciliation of docling-api.              *)
(*                                                                         *)
(* Every HTTP request runs in its own database session (get_db): the       *)
(* session commits when the handler returns and rolls back when it raises. *)
(* The ORM loads a row with a plain SELECT (no FOR UPDATE), keeps the      *)
(* loaded values in the session's object, and a flush issues               *)
(*   UPDATE api_keys SET <changed columns = the object's values> WHERE id  *)
(* which takes the row's write lock until the session ends.  The store is  *)
(* read-committed: a SELECT sees committed rows only and never blocks, an  *)
(* UPDATE waits for the row lock, an INSERT into a unique index waits for  *)
(* an uncommitted row with the same key and fails once that row commits.   *)
(***************************************************************************)
EXTENDS Integers, FiniteSets, Sequences, TLC

\* ------------------------------------------------------------------ bounds
MaxTxns == 2          \* requests handled in one behaviour (sessions 1..MaxTxns)
MaxPages == 2         \* largest page count a backend response reports
MaxGrant == 1         \* largest credit amount of a grant / of a new key
MaxSources == 1       \* largest number of sources in one conversion request
SecretLen == 2        \* characters of a key secret
MaxBatch == 2         \* largest number of sources in a batch (BatchSpec)
MaxRetries == 3       \* largest max_retries of an SDK client (ClientSpec)

\* ------------------------------------------------------- program constants
credits_per_page == 1
min_credits_per_document == 1
stop_after_attempt == 3          \* attempts of one backend call (tenacity)

\* ------------------------------------------------------------------ domains
Txns == 1..MaxTxns
Keys == {1, 2}                       \* api_keys.key_id values (2 is issued later)
NoKey == 0
InitCredits == MaxGrant              \* credits of the account that exists at start

Columns == {"credits", "credits_used", "documents_processed",
            "pages_processed", "is_active", "last_used",
            "stripe_customer_id", "stripe_subscription_id"}

\* None in a nullable Stripe column, the customers and the subscription
NoCustomer == ""
Customers == {"cus_1", "cus_2"}
NoSubscription == ""
Subscriptions == {"sub_1"}

\* ----------------------------------------------------------- credentials
\* Strings are sequences of characters.  A secret is SecretLen characters of
\* the token alphabet; the key_id of account k is "dk_" and a token.
Chars == {"a", "b"}
Secrets == [1..SecretLen -> Chars]
DefaultSecret == [i \in 1..SecretLen |-> "a"]
generate_key_id(k) == <<"d", "k", "_", ToString(k)>>
\* full_key = f"{key_id}_{key_secret}"
full_key(key_id, key_secret) == key_id \o <<"_">> \o key_secret

\* Mutant: the key is stored as it is.
hash_key_Plain(key) == key

\* Mutant: a digest that does not cover the last character of the key.
hash_key_Truncated(key) == <<"sha256", SubSeq(key, 1, Len(key) - 1)>>

\* hash_key: SHA-256 of the key, taken as collision-free (the digest of a
\* string is a value that determines the string).
hash_key(key) == <<"sha256", key>>
NoHash == <<>>
\* Every credential a caller presents: a key_id, "_" and SecretLen characters
Credentials == {full_key(generate_key_id(k), secret) :
                  k \in Keys, secret \in Secrets}
\* The credential of account k when its secret is the default one
Credential(k) == full_key(generate_key_id(k), DefaultSecret)

NoRow == [exists |-> FALSE, credits |-> 0, credits_used |-> 0,
          documents_processed |-> 0, pages_processed |-> 0,
          is_active |-> FALSE, last_used |-> 0,
          stripe_customer_id |-> NoCustomer,
          stripe_subscription_id |-> NoSubscription, key_hash |-> NoHash]

\* The row APIKey.create_new builds: the digest of the full key, the column
\* defaults and the given credits.
NewRow(key, credits, customer) ==
    [exists |-> TRUE, credits |-> credits, credits_used |-> 0,
     documents_processed |-> 0, pages_processed |-> 0, is_active |-> TRUE,
     last_used |-> 0, stripe_customer_id |-> customer,
     stripe_subscription_id |-> NoSubscription, key_hash |-> hash_key(key)]

\* A request's outcome as the caller sees it.
\*   "ok"   2xx of a conversion / admin call        "401" "402" "404" "400"
\*   "500"  an exception turned into a server error
\*   "500 IntegrityError"  the 500 of a webhook whose INSERT hit the unique index
\*   webhook outcomes: "duplicate" "success" "skipped" "ignored" "error"

\* -------------------------------------------------------------- webhook events
\* A verified Stripe event.  Its identifier determines its content, so an
\* event is represented by its content and a redelivery is the same value.
CheckoutType == "checkout.session.completed"
OtherType == "payment_intent.created"
\* metadata["credits"] as int(): a refund-like negative amount, 0, a package
MetaCredits == {-MaxGrant, 0, MaxGrant}
\* An event carries: its type; metadata["api_key_id"] (NoKey: absent);
\* whether metadata["credits"] is a numeral and then its value; and the
\* object's "customer" (NoCustomer: absent).
Events ==
    [type : {CheckoutType}, api_key_id : Keys \cup {NoKey},
     credits : MetaCredits, numeric : {TRUE}, customer : {NoCustomer}]
    \cup {[type |-> OtherType, api_key_id |-> NoKey, credits |-> 0,
           numeric |-> TRUE, customer |-> NoCustomer]}
NoEvent == [type |-> "", api_key_id |-> NoKey, credits |-> 0,
            numeric |-> TRUE, customer |-> NoCustomer]

InvoiceType == "invoice.paid"
SubscriptionDeletedType == "customer.subscription.deleted"
\* credits_to_add of _handle_invoice_paid
subscription_credits == 1000
\* Every event the webhook endpoint is sent: those above, a checkout whose
\* metadata["credits"] is not a numeral, and the two customer events with no
\* customer, a linked customer and an unknown customer.
HookEvents ==
    Events
    \cup [type : {CheckoutType}, api_key_id : {1, NoKey}, credits : {0},
          numeric : {FALSE}, customer : {NoCustomer}]
    \cup [type : {InvoiceType, SubscriptionDeletedType}, api_key_id : {NoKey},
          credits : {0}, numeric : {TRUE}, customer : Customers \cup {NoCustomer}]
\* A delivery: a payload with its Stripe-Signature header.  valid: the header
\* is the signature of the payload under the webhook secret.
\* The payload of the delivery whose signature does not verify: a checkout
\* granting account 2 (told apart from the verified ones by its customer).
ForgedEvent == [type |-> CheckoutType, api_key_id |-> 2, credits |-> MaxGrant,
                numeric |-> TRUE, customer |-> "cus_2"]
Deliveries ==
    [valid : {TRUE}, event : HookEvents]
    \cup {[valid |-> FALSE, event |-> ForgedEvent]}

\* -------------------------------------------------------------- backend results
\* One entry per source: status and page count (convert_sources' list).
SourceResults ==
    [status : {"success"}, pages : 0..MaxPages, error : {""}]
    \cup {[status |-> "error", pages |-> 0, error |-> "failed"]}
BackendResults == UNION {[1..n -> SourceResults] : n \in 1..MaxSources}
\* The same for the batches of the conversion-only specification: each
\* source fails or is converted with no page or with MaxPages pages.
BatchSourceResults ==
    [status : {"success"}, pages : {0, MaxPages}, error : {""}]
    \cup {[status |-> "error", pages |-> 0, error |-> "failed"]}
BatchResults == UNION {[1..n -> BatchSourceResults] : n \in 1..MaxBatch}

VARIABLES
    api_keys,        \* committed api_keys table: key_id -> row (NoRow: no such row)
    usage_records,   \* committed usage_records rows
    stripe_events,   \* committed stripe_events rows
    rowlock,         \* key_id -> session holding the row's write lock (0: free)
    sess             \* session/request state of each request
vars == <<api_keys, usage_records, stripe_events, rowlock, sess>>

\* A session that has not started, and the fields every session carries.
\*   op       the endpoint: "convert" "add_credits" "deactivate" "create_key" "webhook"
\*            ("link": a caller of update_stripe_info)
\*   pc       where the handler is
\*   key      the account the request addresses
\*   obj      the ORM object of that account in this session (values as loaded
\*            and then changed in memory)
\*   written  the columns this session has flushed an UPDATE for
\*   inserted whether the account row is a pending INSERT of this session
\*   usage    the pending usage_records INSERT ({} or one row)
\*   evrow    the pending stripe_events INSERT ({} or one row)
\*   event    the delivered event (webhook)
\*   amount   credits charged / granted by the request
\*   credential  the full key the request presented (convert) or was
\*            handed (create_key)
\*   result   the outcome reported to the caller
\*   sources  the number of sources of a conversion request
\*   response the results of a successful conversion response, one per source
\*   attempts the attempts made so far of the backend call in progress
\*   gathered the results convert_sources has collected so far, each with
\*            the number of attempts its call took
\*   checkout the metadata of the Stripe Checkout session the request
\*            created ({} or one record); the session lives at Stripe
\*   max_retries  the max_retries of the SDK client making the call
IdleSession ==
    [op |-> "none", pc |-> "idle", key |-> NoKey, obj |-> NoRow, written |-> {},
     inserted |-> FALSE, usage |-> {}, evrow |-> {}, event |-> NoEvent,
     amount |-> 0, result |-> "", credential |-> <<>>, sources |-> 0,
     response |-> <<>>, attempts |-> 0, gathered |-> <<>>, checkout |-> {},
     max_retries |-> 0]

InFlight(t) == sess[t].pc \notin {"idle", "committed", "rolledback"}
Finished(t) == sess[t].pc \in {"committed", "rolledback"}

Init ==
    /\ api_keys = [k \in Keys |->
                      IF k = 1 THEN NewRow(Credential(1), InitCredits, NoCustomer)
                      ELSE NoRow]
    /\ usage_records = {}
    /\ stripe_events = {}
    /\ rowlock = [k \in Keys |-> 0]
    /\ sess = [t \in Txns |-> IdleSession]

\* ------------------------------------------------------------ pure functions
Max(a, b) == IF a >= b THEN a ELSE b

\* Mutant: the charge is the per-page price without the minimum.
_calculate_credits_NoMinimum(pages) == pages * credits_per_page

\* _calculate_credits(pages)
_calculate_credits(pages) ==
    Max(pages * credits_per_page, min_credits_per_document)

RECURSIVE SumPages(_, _)
SumPages(results, n) ==
    IF n = 0 THEN 0
    ELSE SumPages(results, n - 1)
         + (IF results[n].status = "success" THEN results[n].pages ELSE 0)

\* total_pages and total_documents of convert_from_source
TotalPages(results) == SumPages(results, Len(results))
TotalDocuments(results) ==
    Cardinality({i \in 1..Len(results) : results[i].status = "success"})

\* Mutant: the response lists the converted sources only.
document_results_SuccessOnly(results) ==
    SelectSeq([i \in 1..Len(results) |->
                  [status |-> results[i].status, pages |-> results[i].pages,
                   error |-> results[i].error]],
              LAMBDA r : r.status = "success")

\* document_results of convert_from_source: one DocumentResult per entry of
\* the backend's list, with its status, pages and error.
document_results(results) ==
    [i \in 1..Len(results) |->
        [status |-> results[i].status, pages |-> results[i].pages,
         error |-> results[i].error]]

\* Mutant: the balance is reduced by the page count instead of the charge.
APIKey_deduct_credits_ByPages(obj, credits, documents, pages, now) ==
    IF obj.credits < credits
    THEN [ok |-> FALSE, obj |-> obj]
    ELSE [ok |-> TRUE,
          obj |-> [obj EXCEPT !.credits = @ - pages,
                              !.credits_used = @ + credits,
                              !.documents_processed = @ + documents,
                              !.pages_processed = @ + pages,
                              !.last_used = now]]

\* APIKey.deduct_credits on the session's object: the result and the object after
APIKey_deduct_credits(obj, credits, documents, pages, now) ==
    IF obj.credits < credits
    THEN [ok |-> FALSE, obj |-> obj]
    ELSE [ok |-> TRUE,
          obj |-> [obj EXCEPT !.credits = @ - credits,
                              !.credits_used = @ + credits,
                              !.documents_processed = @ + documents,
                              !.pages_processed = @ + pages,
                              !.last_used = now]]

\* Mutant: the balance is set to the granted amount instead of raised by it.
APIKey_add_credits_Set(obj, credits) == [obj EXCEPT !.credits = credits]

\* APIKey.add_credits on the session's object
APIKey_add_credits(obj, credits) == [obj EXCEPT !.credits = @ + credits]

\* The UsageRecord that APIKeyService.deduct_credits adds
UsageRow(k, t, credits, documents, pages) ==
    [api_key_id |-> k, request_id |-> t, credits |-> credits,
     documents |-> documents, pages |-> pages]

\* The columns a flush writes: those whose value differs from the loaded one.
Changed(old, new) == {c \in Columns : old[c] # new[c]}

\* Mutant: the UPDATE writes every column of the session's object.
CommittedRow_WholeObject(row, s) ==
    IF s.inserted \/ s.written # {} THEN s.obj ELSE row

\* The row as committed by a session: the columns it wrote take the object's
\* values, every other column keeps what is committed now.
CommittedRow(row, s) ==
    IF s.inserted THEN s.obj
    ELSE [exists |-> row.exists,
          credits |-> IF "credits" \in s.written THEN s.obj.credits ELSE row.credits,
          credits_used |-> IF "credits_used" \in s.written
                           THEN s.obj.credits_used ELSE row.credits_used,
          documents_processed |-> IF "documents_processed" \in s.written
                                  THEN s.obj.documents_processed
                                  ELSE row.documents_processed,
          pages_processed |-> IF "pages_processed" \in s.written
                              THEN s.obj.pages_processed ELSE row.pages_processed,
          is_active |-> IF "is_active" \in s.written
                        THEN s.obj.is_active ELSE row.is_active,
          last_used |-> IF "last_used" \in s.written
                        THEN s.obj.last_used ELSE row.last_used,
          stripe_customer_id |-> IF "stripe_customer_id" \in s.written
                                 THEN s.obj.stripe_customer_id
                                 ELSE row.stripe_customer_id,
          stripe_subscription_id |-> IF "stripe_subscription_id" \in s.written
                                     THEN s.obj.stripe_subscription_id
                                     ELSE row.stripe_subscription_id,
          key_hash |-> row.key_hash]

\* Mutants: a rollback that leaves the session's inserted rows behind (each
\* INSERT committed on its own).
RolledBackUsage_Autocommit(t) == usage_records \cup sess[t].usage
RolledBackEvents_Autocommit(t) == stripe_events \cup sess[t].evrow

\* Mutant: a rollback that also discards the committed usage records.
RolledBackUsage_Purge(t) == {}

\* Mutant: a rollback that leaves the session's flushed UPDATE behind.
RolledBackKeys_Autocommit(t) ==
    IF sess[t].key = NoKey THEN api_keys
    ELSE [api_keys EXCEPT ![sess[t].key] = CommittedRow(@, sess[t])]

\* What a rolled-back session leaves in the three tables: nothing.
RolledBackKeys(t) == api_keys
RolledBackUsage(t) == usage_records
RolledBackEvents(t) == stripe_events

\* Mutants: an existence check that never finds the event; a stripe_events
\* table without the unique index on event_id.
DuplicateCheck_Never(e) == FALSE
UniqueViolation_NoIndex(e) == FALSE

\* StripeEvent rows
EventRow(e, t) == [event_id |-> e, id |-> t]
\* handle_webhook's existence check: a committed row with this event_id
DuplicateCheck(e) == \E r \in stripe_events : r.event_id = e
\* the unique index on stripe_events.event_id, at INSERT time
UniqueViolation(e) == \E r \in stripe_events : r.event_id = e
\* an uncommitted INSERT of the same event_id by another session: the INSERT waits
InsertBlocked(t, e) ==
    \E u \in Txns \ {t} : \E r \in sess[u].evrow : r.event_id = e

\* ---------------------------------------------------------- session plumbing
\* The record a finished session keeps: what it was, what it reported and the
\* amount it charged or granted (rolled back: the amount it had applied to its
\* object, or was refused for).
Closed(s, pc, result, amount) ==
    [IdleSession EXCEPT !.op = s.op, !.pc = pc, !.key = s.key,
                        !.event = s.event, !.amount = amount, !.result = result,
                        !.credential = s.credential, !.checkout = s.checkout]

Release(t) == [k \in Keys |-> IF rowlock[k] = t THEN 0 ELSE rowlock[k]]

\* get_db's except branch (and the session's close): the handler raised.
Rollback(t, result, amount) ==
    /\ api_keys' = RolledBackKeys(t)
    /\ usage_records' = RolledBackUsage(t)
    /\ stripe_events' = RolledBackEvents(t)
    /\ rowlock' = Release(t)
    /\ sess' = [sess EXCEPT ![t] = Closed(sess[t], "rolledback", result, amount)]

\* A request that is refused before it touched the session's transaction.
Refuse(t, op, k, result) ==
    /\ sess' = [sess EXCEPT ![t] =
                  [IdleSession EXCEPT !.op = op, !.key = k,
                                      !.pc = "rolledback", !.result = result]]
    /\ UNCHANGED <<api_keys, usage_records, stripe_events, rowlock>>

\* db.flush() after the object changed from s.obj to new: an UPDATE of the
\* changed columns, which needs the row's write lock.
CanFlush(t, new) ==
    \/ Changed(sess[t].obj, new) = {}
    \/ rowlock[sess[t].key] \in {0, t}
LockAfterFlush(t, new) ==
    IF Changed(sess[t].obj, new) = {} THEN rowlock
    ELSE [rowlock EXCEPT ![sess[t].key] = t]

\* Requests start in the order of their numbers (sessions are interchangeable).
CanStart(t) ==
    /\ sess[t].pc = "idle"
    /\ IF t = 1 THEN TRUE ELSE sess[t - 1].pc # "idle"

\* Mutant: the lookup does not filter on is_active.
get_by_full_key_AnyStatus(credential) ==
    {k \in Keys : /\ api_keys[k].exists
                  /\ api_keys[k].key_hash = hash_key(credential)}

\* APIKeyService.get_by_full_key: the committed rows whose key_hash is the
\* digest of the credential and that are active.
get_by_full_key(credential) ==
    {k \in Keys : /\ api_keys[k].exists
                  /\ api_keys[k].key_hash = hash_key(credential)
                  /\ api_keys[k].is_active}

\* ------------------------------------------------- POST /v1/convert/source
\* get_current_api_key -> validate_key -> get_by_full_key: the SELECT by
\* key_hash and is_active, with the credential of account k, for a request
\* of n sources.
StartConvert(t, k, n) ==
    /\ CanStart(t)
    /\ IF get_by_full_key(Credential(k)) # {}
       THEN /\ sess' = [sess EXCEPT ![t] =
                          [IdleSession EXCEPT !.op = "convert", !.key = k,
                                              !.pc = "validate_flush",
                                              !.sources = n,
                                              !.obj = api_keys[k]]]
            /\ UNCHANGED <<api_keys, usage_records, stripe_events, rowlock>>
       ELSE Refuse(t, "convert", k, "401")

\* Mutant: the 401 tells a credential whose digest is on file from one that
\* matches no account.
AuthFailure_Detailed(credential) ==
    IF \E k \in Keys : api_keys[k].exists
                        /\ api_keys[k].key_hash = hash_key(credential)
    THEN "401 inactive" ELSE "401"

\* get_current_api_key when validate_key returned None: the one
\* HTTPException(401, "Invalid or inactive API key"), whatever was presented.
AuthFailure(credential) == "401"

\* The same for any credential a caller presents: the account whose digest
\* matches, or 401.
Authenticate(t, credential) ==
    LET found == get_by_full_key(credential)
    IN  /\ CanStart(t)
        /\ sess' = [sess EXCEPT ![t] =
                      IF found = {}
                      THEN [IdleSession EXCEPT !.op = "convert",
                                               !.credential = credential,
                                               !.pc = "rolledback",
                                               !.result =
                                                   AuthFailure(credential)]
                      ELSE LET k == CHOOSE k \in found : TRUE
                           IN  [IdleSession EXCEPT !.op = "convert", !.key = k,
                                                   !.credential = credential,
                                                   !.pc = "validate_flush",
                                                   !.obj = api_keys[k]]]
        /\ UNCHANGED <<api_keys, usage_records, stripe_events, rowlock>>

\* Mutant: validation also counts the request as a use of credits.
touch_last_used_Counting(obj, now) ==
    [obj EXCEPT !.last_used = now, !.credits_used = @ + 1]

\* validate_key on a found account: api_key.last_used = datetime.utcnow()
touch_last_used(obj, now) == [obj EXCEPT !.last_used = now]

\* Mutant: the route is not wrapped by the limiter; the authenticated
\* request goes straight to the backend.
ValidateFlush_NoLimiter(t) ==
    LET s == sess[t]
        new == touch_last_used(s.obj, t)
    IN  /\ s.pc = "validate_flush"
        /\ CanFlush(t, new)
        /\ IF new.credits <= 0
           THEN Rollback(t, "402", 0)
           ELSE /\ sess' = [sess EXCEPT ![t].obj = new,
                                        ![t].written = Changed(s.obj, new),
                                        ![t].pc = "backend"]
                /\ rowlock' = LockAfterFlush(t, new)
                /\ UNCHANGED <<api_keys, usage_records, stripe_events>>

\* Mutant: only an account in debt is refused; one with no credit left
\* is let through.
ValidateFlush_ZeroAllowed(t) ==
    LET s == sess[t]
        new == touch_last_used(s.obj, t)
    IN  /\ s.pc = "validate_flush"
        /\ CanFlush(t, new)
        /\ IF new.credits < 0
           THEN Rollback(t, "402", 0)
           ELSE /\ sess' = [sess EXCEPT ![t].obj = new,
                                        ![t].written = Changed(s.obj, new),
                                        ![t].pc = "admit"]
                /\ rowlock' = LockAfterFlush(t, new)
                /\ UNCHANGED <<api_keys, usage_records, stripe_events>>

\* validate_key's last_used update and flush, then get_current_api_key's
\* credits check; an authenticated request goes on to the route, which the
\* limiter wraps.
ValidateFlush(t) ==
    LET s == sess[t]
        new == touch_last_used(s.obj, t)
    IN  /\ s.pc = "validate_flush"
        /\ CanFlush(t, new)
        /\ IF new.credits <= 0
           THEN Rollback(t, "402", 0)
           ELSE /\ sess' = [sess EXCEPT ![t].obj = new,
                                        ![t].written = Changed(s.obj, new),
                                        ![t].pc = "admit"]
                /\ rowlock' = LockAfterFlush(t, new)
                /\ UNCHANGED <<api_keys, usage_records, stripe_events>>

\* What the route does before it calls the backend: the limiter's decision
\* on the request's key (its counter lives outside the database) and the
\* file endpoint's size check.
AdmitOutcomes == {"ok", "429", "413"}

\* @limiter.limit(...) around the route, then the route up to the backend
\* call: a denial (RateLimitExceeded, 429) or an oversized upload (413) ends
\* the request, otherwise the backend is invoked.
Admit(t, outcome) ==
    /\ sess[t].pc = "admit"
    /\ IF outcome = "ok"
       THEN /\ sess' = [sess EXCEPT ![t].pc = "backend"]
            /\ UNCHANGED <<api_keys, usage_records, stripe_events, rowlock>>
       ELSE Rollback(t, outcome, 0)

\* The backend answers: the handler prices the successful sources, checks the
\* object's credits, and APIKeyService.deduct_credits changes the object, adds
\* the usage record and flushes.
BackendResponds(t, results) ==
    LET s == sess[t]
        total_pages == TotalPages(results)
        total_credits == _calculate_credits(total_pages)
        total_documents == TotalDocuments(results)
        d == APIKey_deduct_credits(s.obj, total_credits, total_documents,
                                   total_pages, t)
    IN  /\ s.pc = "backend"
        /\ Len(results) = s.sources
        /\ IF s.obj.credits < total_credits \/ ~d.ok
           THEN Rollback(t, "402", total_credits)
           ELSE /\ sess' = [sess EXCEPT
                              ![t].obj = d.obj,
                              ![t].written = @ \cup Changed(s.obj, d.obj),
                              ![t].usage = {UsageRow(s.key, t, total_credits,
                                                     total_documents, total_pages)},
                              ![t].amount = total_credits,
                              ![t].result = "ok",
                              ![t].response = document_results(results),
                              ![t].pc = "commit"]
                /\ UNCHANGED <<api_keys, usage_records, stripe_events, rowlock>>

\* Mutant: the retry decorator gives up one attempt later.
ShouldStop_OneMore(attempts) == attempts >= stop_after_attempt + 1

\* stop_after_attempt(3) of the @retry decorator: no further attempt once
\* this many have been made.
ShouldStop(attempts) == attempts >= stop_after_attempt

\* What one attempt of a backend call can give: the pages of the converted
\* document, or an exception.
AttemptOutcomes == 0..MaxPages \cup {-1}

\* One attempt of convert_from_url / convert_from_base64 for the next source
\* of convert_sources' loop: a success ends the call with its result, an
\* exception is retried until the decorator stops, and then the call's
\* failure becomes the source's error result.
BackendAttempt(t, outcome) ==
    LET s == sess[t]
        n == s.attempts + 1
    IN  /\ s.pc = "backend"
        /\ Len(s.gathered) < s.sources
        /\ ~ShouldStop(s.attempts)
        /\ sess' = [sess EXCEPT
              ![t].attempts = IF outcome >= 0 \/ ShouldStop(n) THEN 0 ELSE n,
              ![t].gathered =
                  IF outcome >= 0
                  THEN Append(@, [status |-> "success", pages |-> outcome,
                                  error |-> "", attempts |-> n])
                  ELSE IF ShouldStop(n)
                  THEN Append(@, [status |-> "error", pages |-> 0,
                                  error |-> "failed", attempts |-> n])
                  ELSE @]
        /\ UNCHANGED <<api_keys, usage_records, stripe_events, rowlock>>

\* convert_sources returned what it gathered: the handler goes on as in
\* BackendResponds.
BackendReturns(t) ==
    /\ Len(sess[t].gathered) = sess[t].sources
    /\ BackendResponds(t, sess[t].gathered)

\* ------------------------------------------------------ reads of accounts
\* APIKeyUsage(...) as the key routes build it from an account.
APIKeyUsage(k, row) ==
    [key_id |-> generate_key_id(k), credits_remaining |-> row.credits,
     credits_used |-> row.credits_used,
     documents_processed |-> row.documents_processed,
     pages_processed |-> row.pages_processed, last_used |-> row.last_used]

\* GET /v1/keys/me: the authenticated account's usage.
CurrentUsageReturns(t) ==
    /\ sess[t].pc = "admit"
    /\ sess' = [sess EXCEPT ![t].op = "me", ![t].result = "ok",
                            ![t].response =
                                <<APIKeyUsage(sess[t].key, sess[t].obj)>>,
                            ![t].pc = "commit"]
    /\ UNCHANGED <<api_keys, usage_records, stripe_events, rowlock>>

\* GET /v1/keys/{key_id}: get_by_id, then the account's usage or a 404.
GetKeyDetails(t, k) ==
    /\ CanStart(t)
    /\ IF ~api_keys[k].exists
       THEN Refuse(t, "key_details", k, "404")
       ELSE /\ sess' = [sess EXCEPT ![t] =
                          [IdleSession EXCEPT
                             !.op = "key_details", !.key = k,
                             !.obj = api_keys[k], !.result = "ok",
                             !.response = <<APIKeyUsage(k, api_keys[k])>>,
                             !.pc = "commit"]]
            /\ UNCHANGED <<api_keys, usage_records, stripe_events, rowlock>>

RECURSIVE ActiveUsages(_)
\* the usages of the active accounts among 1..n, latest first
ActiveUsages(n) ==
    IF n = 0 THEN <<>>
    ELSE (IF api_keys[n].exists /\ api_keys[n].is_active
          THEN <<APIKeyUsage(n, api_keys[n])>> ELSE <<>>)
         \o ActiveUsages(n - 1)

\* GET /v1/keys: list_keys() (the active accounts, newest first).
ListKeys(t) ==
    /\ CanStart(t)
    /\ sess' = [sess EXCEPT ![t] =
                  [IdleSession EXCEPT !.op = "list_keys", !.result = "ok",
                                      !.response = ActiveUsages(Cardinality(Keys)),
                                      !.pc = "commit"]]
    /\ UNCHANGED <<api_keys, usage_records, stripe_events, rowlock>>

\* --------------------------------------------------- GET /v1/usage/stats
\* get_usage_stats: the authenticated request only reads, and returns.
StatsReturns(t) ==
    /\ sess[t].pc = "admit"
    /\ sess' = [sess EXCEPT ![t].op = "stats", ![t].result = "ok",
                            ![t].pc = "commit"]
    /\ UNCHANGED <<api_keys, usage_records, stripe_events, rowlock>>

\* ------------------------------------------- POST /v1/keys/{key_id}/credits
\* The amounts a caller asks to add: a negative one, 0, and the grants.
GrantAmounts == (0 - 1)..MaxGrant

\* A refused add-credits request; its record keeps the amount asked for.
RefuseGrant(t, k, credits, result) ==
    /\ sess' = [sess EXCEPT ![t] =
                  [IdleSession EXCEPT !.op = "add_credits", !.key = k,
                                      !.pc = "rolledback", !.amount = credits,
                                      !.result = result]]
    /\ UNCHANGED <<api_keys, usage_records, stripe_events, rowlock>>

\* Mutant: the lookup of the account skips deactivated accounts.
StartAddCredits_ActiveOnly(t, k, credits) ==
    /\ CanStart(t)
    /\ IF credits <= 0
       THEN RefuseGrant(t, k, credits, "400")
       ELSE IF ~api_keys[k].exists \/ ~api_keys[k].is_active
       THEN RefuseGrant(t, k, credits, "404")
       ELSE /\ sess' = [sess EXCEPT ![t] =
                          [IdleSession EXCEPT !.op = "add_credits", !.key = k,
                                              !.pc = "grant_flush",
                                              !.amount = credits,
                                              !.obj = api_keys[k]]]
            /\ UNCHANGED <<api_keys, usage_records, stripe_events, rowlock>>

\* add_key_credits: a non-positive amount is a 400; then get_by_id, by
\* key_id alone, and a 404 when there is no such account.
StartAddCredits(t, k, credits) ==
    /\ CanStart(t)
    /\ IF credits <= 0
       THEN RefuseGrant(t, k, credits, "400")
       ELSE IF ~api_keys[k].exists
       THEN RefuseGrant(t, k, credits, "404")
       ELSE /\ sess' = [sess EXCEPT ![t] =
                          [IdleSession EXCEPT !.op = "add_credits", !.key = k,
                                              !.pc = "grant_flush",
                                              !.amount = credits,
                                              !.obj = api_keys[k]]]
            /\ UNCHANGED <<api_keys, usage_records, stripe_events, rowlock>>

\* APIKeyService.add_credits: the object's credits grow, then the flush.
GrantFlush(t) ==
    LET s == sess[t]
        new == APIKey_add_credits(s.obj, s.amount)
    IN  /\ s.pc = "grant_flush"
        /\ CanFlush(t, new)
        /\ sess' = [sess EXCEPT ![t].obj = new,
                                ![t].written = @ \cup Changed(s.obj, new),
                                ![t].result = "ok",
                                ![t].pc = "commit"]
        /\ rowlock' = LockAfterFlush(t, new)
        /\ UNCHANGED <<api_keys, usage_records, stripe_events>>

\* --------------------------------------------------- DELETE /v1/keys/{key_id}
StartDeactivate(t, k) ==
    /\ CanStart(t)
    /\ IF ~api_keys[k].exists
       THEN Refuse(t, "deactivate", k, "404")
       ELSE /\ sess' = [sess EXCEPT ![t] =
                          [IdleSession EXCEPT !.op = "deactivate", !.key = k,
                                              !.pc = "deactivate_flush",
                                              !.obj = api_keys[k]]]
            /\ UNCHANGED <<api_keys, usage_records, stripe_events, rowlock>>

DeactivateFlush(t) ==
    LET s == sess[t]
        new == [s.obj EXCEPT !.is_active = FALSE]
    IN  /\ s.pc = "deactivate_flush"
        /\ CanFlush(t, new)
        /\ sess' = [sess EXCEPT ![t].obj = new,
                                ![t].written = @ \cup Changed(s.obj, new),
                                ![t].result = "ok",
                                ![t].pc = "commit"]
        /\ rowlock' = LockAfterFlush(t, new)
        /\ UNCHANGED <<api_keys, usage_records, stripe_events>>

\* ------------------------------------------------------------ POST /v1/keys
\* APIKey.create_new with a fresh key_id, db.add and flush (an INSERT).
StartCreateKey(t, credits, key_secret) ==
    /\ CanStart(t)
    /\ \E k \in Keys :
          /\ ~api_keys[k].exists
          /\ \A u \in Txns : ~(sess[u].inserted /\ sess[u].key = k)
          /\ sess' = [sess EXCEPT ![t] =
                        [IdleSession EXCEPT
                           !.op = "create_key", !.key = k, !.pc = "commit",
                           !.inserted = TRUE, !.amount = credits,
                           !.result = "ok",
                           !.credential =
                               full_key(generate_key_id(k), key_secret),
                           !.obj = NewRow(full_key(generate_key_id(k),
                                                   key_secret),
                                          credits, NoCustomer)]]
    /\ UNCHANGED <<api_keys, usage_records, stripe_events, rowlock>>

\* ------------------------------------------------- POST /v1/billing/webhook
\* Mutant: an event of an unhandled type falls through to the last handler.
DispatchOutcome_NoDefault(e) ==
    IF e.type = CheckoutType
    THEN IF ~e.numeric THEN "ValueError"
         ELSE IF e.api_key_id = NoKey \/ e.credits = 0 THEN "skipped" ELSE ""
    ELSE IF e.type \in {InvoiceType, SubscriptionDeletedType}
    THEN IF e.customer = NoCustomer THEN "skipped" ELSE ""
    ELSE ""

\* _process_event up to its first database access: the outcome of an event
\* that needs none, "" for an event that goes on to load the account,
\* "ValueError" when int(metadata["credits"]) raises.
DispatchOutcome(e) ==
    IF e.type = CheckoutType
    THEN IF ~e.numeric THEN "ValueError"
         ELSE IF e.api_key_id = NoKey \/ e.credits = 0 THEN "skipped" ELSE ""
    ELSE IF e.type \in {InvoiceType, SubscriptionDeletedType}
    THEN IF e.customer = NoCustomer THEN "skipped" ELSE ""
    ELSE "ignored"

\* handle_webhook for a verified delivery of event e: the existence check,
\* then _process_event.
StartWebhook(t, e) ==
    /\ CanStart(t)
    /\ sess' = [sess EXCEPT ![t] =
                  IF DuplicateCheck(e)
                  THEN [IdleSession EXCEPT !.op = "webhook", !.event = e,
                                           !.result = "duplicate",
                                           !.pc = "commit"]
                  ELSE IF DispatchOutcome(e) = "ValueError"
                  THEN [IdleSession EXCEPT !.op = "webhook", !.event = e,
                                           !.result = "400 invalid literal",
                                           !.pc = "rolledback"]
                  ELSE IF DispatchOutcome(e) # ""
                  THEN [IdleSession EXCEPT !.op = "webhook", !.event = e,
                                           !.result = DispatchOutcome(e),
                                           !.pc = "record"]
                  ELSE IF e.type = CheckoutType
                  THEN [IdleSession EXCEPT !.op = "webhook", !.event = e,
                                           !.key = e.api_key_id,
                                           !.pc = "hook_select"]
                  ELSE [IdleSession EXCEPT !.op = "webhook", !.event = e,
                                           !.pc = "customer_select"]]
    /\ UNCHANGED <<api_keys, usage_records, stripe_events, rowlock>>

\* _handle_checkout_completed: get_by_id(api_key_id)
HookSelect(t) ==
    LET s == sess[t]
    IN  /\ s.pc = "hook_select"
        /\ sess' = [sess EXCEPT ![t] =
                      IF api_keys[s.key].exists
                      THEN [s EXCEPT !.obj = api_keys[s.key], !.pc = "hook_flush"]
                      ELSE [s EXCEPT !.result = "error", !.pc = "record"]]
        /\ UNCHANGED <<api_keys, usage_records, stripe_events, rowlock>>

\* key_service.add_credits(api_key_id, credits): the same object, its credits
\* changed by the metadata's amount, then the flush.
HookFlush(t) ==
    LET s == sess[t]
        new == APIKey_add_credits(s.obj, s.event.credits)
    IN  /\ s.pc = "hook_flush"
        /\ CanFlush(t, new)
        /\ sess' = [sess EXCEPT ![t].obj = new,
                                ![t].written = @ \cup Changed(s.obj, new),
                                ![t].amount = s.event.credits,
                                ![t].result = "success",
                                ![t].pc = "record"]
        /\ rowlock' = LockAfterFlush(t, new)
        /\ UNCHANGED <<api_keys, usage_records, stripe_events>>

\* Mutant: the signature is not checked.
construct_event_Unchecked(d) == d.event

\* stripe.Webhook.construct_event: the event of a payload whose signature
\* verifies, NoEvent (an exception) otherwise.
construct_event(d) == IF d.valid THEN d.event ELSE NoEvent

\* The webhook route for any delivery: verification first; a failure is a
\* ValueError, answered 400, before the session is used.
Deliver(t, d) ==
    IF construct_event(d) = NoEvent
    THEN /\ CanStart(t)
         /\ sess' = [sess EXCEPT ![t] =
                       [IdleSession EXCEPT !.op = "webhook",
                                           !.result = "400 Invalid signature",
                                           !.pc = "rolledback"]]
         /\ UNCHANGED <<api_keys, usage_records, stripe_events, rowlock>>
    ELSE StartWebhook(t, construct_event(d))

\* get_by_stripe_customer(customer_id): the account linked to the customer
CustomerKeys(c) == {k \in Keys : api_keys[k].exists
                                 /\ api_keys[k].stripe_customer_id = c}

\* _handle_invoice_paid / _handle_subscription_deleted: the SELECT by customer
CustomerSelect(t) ==
    LET s == sess[t]
        found == CustomerKeys(s.event.customer)
    IN  /\ s.pc = "customer_select"
        /\ sess' = [sess EXCEPT ![t] =
                      IF found = {}
                      THEN [s EXCEPT !.result = "skipped", !.pc = "record"]
                      ELSE LET k == CHOOSE k \in found : TRUE
                           IN  [s EXCEPT !.key = k, !.obj = api_keys[k],
                                         !.pc = IF s.event.type = InvoiceType
                                                THEN "invoice_flush"
                                                ELSE "subscription_flush"]]
        /\ UNCHANGED <<api_keys, usage_records, stripe_events, rowlock>>

\* _handle_invoice_paid: key_service.add_credits(key_id, credits_to_add)
InvoiceFlush(t) ==
    LET s == sess[t]
        new == APIKey_add_credits(s.obj, subscription_credits)
    IN  /\ s.pc = "invoice_flush"
        /\ CanFlush(t, new)
        /\ sess' = [sess EXCEPT ![t].obj = new,
                                ![t].written = @ \cup Changed(s.obj, new),
                                ![t].amount = subscription_credits,
                                ![t].result = "success",
                                ![t].pc = "record"]
        /\ rowlock' = LockAfterFlush(t, new)
        /\ UNCHANGED <<api_keys, usage_records, stripe_events>>

\* APIKeyService.update_stripe_info on the session's object: an argument
\* that is None (NoCustomer, NoSubscription) leaves its column alone.
update_stripe_info(obj, stripe_customer_id, stripe_subscription_id) ==
    [obj EXCEPT
       !.stripe_customer_id =
           IF stripe_customer_id # NoCustomer THEN stripe_customer_id ELSE @,
       !.stripe_subscription_id =
           IF stripe_subscription_id # NoSubscription
           THEN stripe_subscription_id ELSE @]

\* _handle_subscription_deleted:
\* update_stripe_info(api_key, stripe_subscription_id=None) and its flush
SubscriptionFlush(t) ==
    LET s == sess[t]
        new == update_stripe_info(s.obj, NoCustomer, NoSubscription)
    IN  /\ s.pc = "subscription_flush"
        /\ CanFlush(t, new)
        /\ sess' = [sess EXCEPT ![t].obj = new,
                                ![t].written = @ \cup Changed(s.obj, new),
                                ![t].result = "success",
                                ![t].pc = "record"]
        /\ rowlock' = LockAfterFlush(t, new)
        /\ UNCHANGED <<api_keys, usage_records, stripe_events>>

\* A caller of update_stripe_info that stores a subscription on account k
\* (its own session: the SELECT, then the change and the flush).
StartLink(t, k) ==
    /\ CanStart(t)
    /\ api_keys[k].exists
    /\ sess' = [sess EXCEPT ![t] =
                  [IdleSession EXCEPT !.op = "link", !.key = k,
                                      !.pc = "link_flush",
                                      !.obj = api_keys[k]]]
    /\ UNCHANGED <<api_keys, usage_records, stripe_events, rowlock>>

LinkFlush(t, subscription) ==
    LET s == sess[t]
        new == update_stripe_info(s.obj, NoCustomer, subscription)
    IN  /\ s.pc = "link_flush"
        /\ CanFlush(t, new)
        /\ sess' = [sess EXCEPT ![t].obj = new,
                                ![t].written = @ \cup Changed(s.obj, new),
                                ![t].result = "ok",
                                ![t].pc = "commit"]
        /\ rowlock' = LockAfterFlush(t, new)
        /\ UNCHANGED <<api_keys, usage_records, stripe_events>>

\* handle_webhook records the event: db.add(StripeEvent) and flush.  A
\* committed row with the same event_id makes the INSERT raise, which the
\* route turns into a 500.
RecordEvent(t) ==
    LET s == sess[t]
    IN  /\ s.pc = "record"
        /\ ~InsertBlocked(t, s.event)
        /\ IF UniqueViolation(s.event)
           THEN Rollback(t, "500 IntegrityError", s.amount)
           ELSE /\ sess' = [sess EXCEPT ![t].evrow = {EventRow(s.event, t)},
                                        ![t].pc = "commit"]
                /\ UNCHANGED <<api_keys, usage_records, stripe_events, rowlock>>

\* ------------------------------------------------------------------ get_db
\* The handler returned: session.commit().
Commit(t) ==
    LET s == sess[t]
    IN  /\ s.pc = "commit"
        /\ api_keys' = IF s.key = NoKey THEN api_keys
                       ELSE [api_keys EXCEPT ![s.key] = CommittedRow(@, s)]
        /\ usage_records' = usage_records \cup s.usage
        /\ stripe_events' = stripe_events \cup s.evrow
        /\ rowlock' = Release(t)
        /\ sess' = [sess EXCEPT ![t] = Closed(s, "committed", s.result, s.amount)]

\* The handler, a flush or the commit raised (a lost connection, a lock
\* timeout, a backend exception on the file endpoint): session.rollback().
Fail(t) ==
    /\ InFlight(t)
    /\ Rollback(t, "500", sess[t].amount)

Next ==
    \/ \E t \in Txns, k \in Keys, n \in 1..MaxSources : StartConvert(t, k, n)
    \/ \E t \in Txns : ValidateFlush(t)
    \/ \E t \in Txns, outcome \in AdmitOutcomes : Admit(t, outcome)
    \/ \E t \in Txns, results \in BackendResults : BackendResponds(t, results)
    \/ \E t \in Txns, k \in Keys, c \in GrantAmounts : StartAddCredits(t, k, c)
    \/ \E t \in Txns : GrantFlush(t)
    \/ \E t \in Txns, k \in Keys : StartDeactivate(t, k)
    \/ \E t \in Txns : DeactivateFlush(t)
    \/ \E t \in Txns, c \in 0..MaxGrant : StartCreateKey(t, c, DefaultSecret)
    \/ \E t \in Txns, e \in Events : StartWebhook(t, e)
    \/ \E t \in Txns : HookSelect(t)
    \/ \E t \in Txns : HookFlush(t)
    \/ \E t \in Txns : RecordEvent(t)
    \/ \E t \in Txns : Commit(t)
    \/ \E t \in Txns : Fail(t)

Spec == Init /\ [][Next]_vars

\* --------------------------------------------------------- the key directory
\* Issuing keys with any secret and authenticating with any credential.
KeyNext ==
    \/ \E t \in Txns, c \in 0..MaxGrant, secret \in Secrets :
          StartCreateKey(t, c, secret)
    \/ \E t \in Txns, credential \in Credentials : Authenticate(t, credential)
    \/ \E t \in Txns : ValidateFlush(t)
    \/ \E t \in Txns : StatsReturns(t)
    \/ \E t \in Txns : Commit(t)
    \/ \E t \in Txns : Fail(t)

KeySpec == Init /\ [][KeyNext]_vars

\* The same with deactivation: credentials of unknown, wrong-secret and
\* deactivated accounts are presented.
AuthNext ==
    \/ \E t \in Txns, c \in 0..MaxGrant, secret \in Secrets :
          StartCreateKey(t, c, secret)
    \/ \E t \in Txns, credential \in Credentials : Authenticate(t, credential)
    \/ \E t \in Txns : ValidateFlush(t)
    \/ \E t \in Txns : StatsReturns(t)
    \/ \E t \in Txns, k \in Keys : StartDeactivate(t, k)
    \/ \E t \in Txns : DeactivateFlush(t)
    \/ \E t \in Txns : Commit(t)
    \/ \E t \in Txns : Fail(t)

AuthSpec == Init /\ [][AuthNext]_vars

\* Issuing keys and reading accounts back.
DirectoryNext ==
    \/ \E t \in Txns, c \in 0..MaxGrant, secret \in Secrets :
          StartCreateKey(t, c, secret)
    \/ \E t \in Txns, credential \in Credentials : Authenticate(t, credential)
    \/ \E t \in Txns : ValidateFlush(t)
    \/ \E t \in Txns : CurrentUsageReturns(t)
    \/ \E t \in Txns, k \in Keys : GetKeyDetails(t, k)
    \/ \E t \in Txns : ListKeys(t)
    \/ \E t \in Txns : Commit(t)
    \/ \E t \in Txns : Fail(t)

DirectorySpec == Init /\ [][DirectoryNext]_vars

\* ------------------------------------------- the other authenticated routes
\* Each of these routes has Depends(get_current_api_key): its body starts
\* where the dependency returned the account (pc "admit").

\* The route raised an HTTPException: get_db rolls the session back.
RollbackAs(t, op, result) ==
    /\ api_keys' = RolledBackKeys(t)
    /\ usage_records' = RolledBackUsage(t)
    /\ stripe_events' = RolledBackEvents(t)
    /\ rowlock' = Release(t)
    /\ sess' = [sess EXCEPT ![t] =
                  Closed([sess[t] EXCEPT !.op = op], "rolledback", result, 0)]

\* The limiter's decision on a job submission.
SubmitOutcomes == {"ok", "429"}

\* Mutant: the submission reserves the minimum credits of its sources.
SubmitAsync_Reserving(t, n, outcome) ==
    LET s == sess[t]
        min_credits == n * min_credits_per_document
        new == [s.obj EXCEPT !.credits = @ - min_credits,
                             !.credits_used = @ + min_credits]
    IN  /\ s.pc = "admit"
        /\ IF outcome = "429" THEN RollbackAs(t, "submit_async", "429")
           ELSE IF s.obj.credits < min_credits
           THEN RollbackAs(t, "submit_async", "402")
           ELSE /\ sess' = [sess EXCEPT ![t].op = "submit_async",
                                        ![t].sources = n,
                                        ![t].obj = new,
                                        ![t].written =
                                            @ \cup Changed(s.obj, new),
                                        ![t].pc = "submit"]
                /\ UNCHANGED <<api_keys, usage_records, stripe_events, rowlock>>

\* POST /v1/convert/source/async up to the backend call: the limiter, then
\* the minimum-credits check on the number of sources.
SubmitAsync(t, n, outcome) ==
    LET s == sess[t]
        min_credits == n * min_credits_per_document
    IN  /\ s.pc = "admit"
        /\ IF outcome = "429" THEN RollbackAs(t, "submit_async", "429")
           ELSE IF s.obj.credits < min_credits
           THEN RollbackAs(t, "submit_async", "402")
           ELSE /\ sess' = [sess EXCEPT ![t].op = "submit_async",
                                        ![t].sources = n,
                                        ![t].pc = "submit"]
                /\ UNCHANGED <<api_keys, usage_records, stripe_events, rowlock>>

\* client.submit_async_job returned (accepted) or raised: the job id is
\* answered, or a 500.
SubmitResponds(t, accepted) ==
    /\ sess[t].pc = "submit"
    /\ IF accepted
       THEN /\ sess' = [sess EXCEPT ![t].result = "ok", ![t].pc = "commit"]
            /\ UNCHANGED <<api_keys, usage_records, stripe_events, rowlock>>
       ELSE RollbackAs(t, "submit_async", "500")

\* GET /v1/status/{job_id}: the backend's answer for the job, or a 404.
GetJobStatus(t, found) ==
    /\ sess[t].pc = "admit"
    /\ IF found
       THEN /\ sess' = [sess EXCEPT ![t].op = "job_status", ![t].result = "ok",
                                    ![t].pc = "commit"]
            /\ UNCHANGED <<api_keys, usage_records, stripe_events, rowlock>>
       ELSE RollbackAs(t, "job_status", "404")

\* --------------------------------------------------------------- billing
\* The credit packages on sale.
CREDIT_PACKAGES ==
    [starter |-> [credits |-> 100, price_cents |-> 1500],
     professional |-> [credits |-> 1000, price_cents |-> 10000],
     business |-> [credits |-> 5000, price_cents |-> 40000]]
Packages == DOMAIN CREDIT_PACKAGES
\* the package names a checkout request may carry
RequestedPackages == Packages \cup {"enterprise"}

\* Decimal numerals: str() of a natural number and int() of a numeral.
Digits == <<"0", "1", "2", "3", "4", "5", "6", "7", "8", "9">>
IsNumeral(numeral) ==
    /\ Len(numeral) > 0
    /\ \A i \in 1..Len(numeral) : \E d \in 1..10 : Digits[d] = numeral[i]

RECURSIVE str_NoZeros(_)
\* Mutant: a numeral that leaves out the zeros.
str_NoZeros(n) ==
    IF n < 10 THEN <<Digits[n + 1]>>
    ELSE IF n % 10 = 0 THEN str_NoZeros(n \div 10)
    ELSE str_NoZeros(n \div 10) \o <<Digits[(n % 10) + 1]>>

RECURSIVE str(_)
str(n) ==
    IF n < 10 THEN <<Digits[n + 1]>>
    ELSE str(n \div 10) \o <<Digits[(n % 10) + 1]>>

RECURSIVE int(_)
int(numeral) ==
    IF Len(numeral) = 0 THEN 0
    ELSE 10 * int(SubSeq(numeral, 1, Len(numeral) - 1))
         + ((CHOOSE d \in 1..10 : Digits[d] = numeral[Len(numeral)]) - 1)

\* The customer Stripe creates for account k.
CustomerOf(k) == IF k = 1 THEN "cus_1" ELSE "cus_2"

\* create_customer: the account's customer, created and stored if it has none.
create_customer(obj, k) ==
    IF obj.stripe_customer_id # NoCustomer THEN obj
    ELSE update_stripe_info(obj, CustomerOf(k), NoSubscription)

\* The metadata create_checkout_session puts on the Checkout session.
checkout_metadata(k, package) ==
    [api_key_id |-> generate_key_id(k), package |-> package,
     credits |-> str(CREDIT_PACKAGES[package].credits)]

\* What Stripe does with the two calls of a checkout.
CheckoutOutcomes == {"ok", "503", "stripe_error"}

\* POST /v1/billing/checkout: is_configured(), the package check, then
\* create_checkout_session (create_customer with its flush, and
\* stripe.checkout.Session.create).  An exception of Stripe is a 500.
CreateCheckout(t, package, outcome) ==
    LET s == sess[t]
        new == create_customer(s.obj, s.key)
    IN  /\ s.pc = "admit"
        /\ IF outcome = "503" THEN RollbackAs(t, "checkout", "503")
           ELSE IF package \notin Packages
           THEN RollbackAs(t, "checkout", "400")
           ELSE IF outcome = "stripe_error"
           THEN RollbackAs(t, "checkout", "500")
           ELSE /\ CanFlush(t, new)
                /\ sess' = [sess EXCEPT
                              ![t].op = "checkout", ![t].obj = new,
                              ![t].written = @ \cup Changed(s.obj, new),
                              ![t].checkout =
                                  {checkout_metadata(s.key, package)},
                              ![t].result = "ok", ![t].pc = "commit"]
                /\ rowlock' = LockAfterFlush(t, new)
                /\ UNCHANGED <<api_keys, usage_records, stripe_events>>

\* POST /v1/billing/portal: is_configured(), the account's customer, then
\* the portal session; nothing is written.
GetPortal(t, outcome) ==
    LET s == sess[t]
    IN  /\ s.pc = "admit"
        /\ IF outcome = "503" THEN RollbackAs(t, "portal", "503")
           ELSE IF s.obj.stripe_customer_id = NoCustomer
           THEN RollbackAs(t, "portal", "400")
           ELSE IF outcome = "stripe_error"
           THEN RollbackAs(t, "portal", "500")
           ELSE /\ sess' = [sess EXCEPT ![t].op = "portal", ![t].result = "ok",
                                        ![t].pc = "commit"]
                /\ UNCHANGED <<api_keys, usage_records, stripe_events, rowlock>>

\* Every route that depends on get_current_api_key, with accounts whose
\* credits run out (a conversion) or start at 0 (a new key).
EndpointNext ==
    \/ \E t \in Txns, k \in Keys, n \in 1..MaxSources : StartConvert(t, k, n)
    \/ \E t \in Txns, c \in 0..MaxGrant : StartCreateKey(t, c, DefaultSecret)
    \/ \E t \in Txns : ValidateFlush(t)
    \/ \E t \in Txns, outcome \in AdmitOutcomes : Admit(t, outcome)
    \/ \E t \in Txns, results \in BackendResults : BackendResponds(t, results)
    \/ \E t \in Txns : StatsReturns(t)
    \/ \E t \in Txns : CurrentUsageReturns(t)
    \/ \E t \in Txns, n \in 1..MaxBatch, outcome \in SubmitOutcomes :
          SubmitAsync(t, n, outcome)
    \/ \E t \in Txns, accepted \in BOOLEAN : SubmitResponds(t, accepted)
    \/ \E t \in Txns, found \in BOOLEAN : GetJobStatus(t, found)
    \/ \E t \in Txns, package \in RequestedPackages,
          outcome \in CheckoutOutcomes : CreateCheckout(t, package, outcome)
    \/ \E t \in Txns, outcome \in CheckoutOutcomes : GetPortal(t, outcome)
    \/ \E t \in Txns : Commit(t)
    \/ \E t \in Txns : Fail(t)

EndpointSpec == Init /\ [][EndpointNext]_vars

\* ------------------------------------------------- the payment reconciler
\* The webhook endpoint alone, for every delivery it can receive, with two
\* accounts in place: account 1 is linked to customer cus_1, account 2 is not
\* linked.
HookRows == [k \in Keys |->
                IF k = 1 THEN NewRow(Credential(1), InitCredits, "cus_1")
                ELSE NewRow(Credential(2), InitCredits, NoCustomer)]
HookInit ==
    /\ api_keys = HookRows
    /\ usage_records = {}
    /\ stripe_events = {}
    /\ rowlock = [k \in Keys |-> 0]
    /\ sess = [t \in Txns |-> IdleSession]

HookNext ==
    \/ \E t \in Txns, d \in Deliveries : Deliver(t, d)
    \/ \E t \in Txns : HookSelect(t)
    \/ \E t \in Txns : HookFlush(t)
    \/ \E t \in Txns : CustomerSelect(t)
    \/ \E t \in Txns : InvoiceFlush(t)
    \/ \E t \in Txns : SubscriptionFlush(t)
    \/ \E t \in Txns, k \in Keys : StartLink(t, k)
    \/ \E t \in Txns, s \in Subscriptions : LinkFlush(t, s)
    \/ \E t \in Txns : RecordEvent(t)
    \/ \E t \in Txns : Commit(t)
    \/ \E t \in Txns : Fail(t)

HookSpec == HookInit /\ [][HookNext]_vars

\* ------------------------------------------------------------- purchases
\* get_by_id(key_id): the account with that key_id (NoKey: none)
KeyOfId(key_id) ==
    IF \E k \in Keys : generate_key_id(k) = key_id
    THEN CHOOSE k \in Keys : generate_key_id(k) = key_id
    ELSE NoKey

\* The checkout.session.completed event of a Checkout session with this
\* metadata, as _handle_checkout_completed reads it: metadata["api_key_id"]
\* names the account, int(metadata["credits"]) is the amount.
CompletedEvent(metadata) ==
    [type |-> CheckoutType, api_key_id |-> KeyOfId(metadata.api_key_id),
     credits |-> IF IsNumeral(metadata.credits) THEN int(metadata.credits)
                 ELSE 0,
     numeric |-> IsNumeral(metadata.credits), customer |-> NoCustomer]

\* Stripe delivers the completion of the Checkout session request u created.
CompleteCheckout(t, u) ==
    /\ sess[u].checkout # {}
    /\ StartWebhook(t, CompletedEvent(CHOOSE m \in sess[u].checkout : TRUE))

\* Checkouts of the two accounts and the webhooks of their completion.
PurchaseNext ==
    \/ \E t \in Txns, k \in Keys, n \in 1..MaxSources : StartConvert(t, k, n)
    \/ \E t \in Txns : ValidateFlush(t)
    \/ \E t \in Txns, package \in RequestedPackages,
          outcome \in CheckoutOutcomes : CreateCheckout(t, package, outcome)
    \/ \E t, u \in Txns : CompleteCheckout(t, u)
    \/ \E t \in Txns : HookSelect(t)
    \/ \E t \in Txns : HookFlush(t)
    \/ \E t \in Txns : RecordEvent(t)
    \/ \E t \in Txns : Commit(t)
    \/ \E t \in Txns : Fail(t)

PurchaseSpec == HookInit /\ [][PurchaseNext]_vars

\* ------------------------------------------------------------ SDK client
\* DocProcessClient._request, one session per call.  max_retries is the
\* constructor's parameter (default 3); a call is made with 0..MaxRetries.

\* What one HTTP attempt meets: a response (its status, whether its body
\* parses as JSON, and its Retry-After header: "" absent, "seconds" an
\* integer, "date" an HTTP date), or httpx.RequestError (status 0).
Response(status, json, retry_after) ==
    [status |-> status, json |-> json, retry_after |-> retry_after]
TransportError == Response(0, FALSE, "")
ClientResponses ==
    {Response(200, TRUE, ""), Response(200, FALSE, ""),
     Response(401, TRUE, ""),
     Response(402, TRUE, ""), Response(402, FALSE, ""),
     Response(404, TRUE, ""),
     Response(429, TRUE, ""), Response(429, TRUE, "seconds"),
     Response(429, TRUE, "date"),
     Response(500, TRUE, ""),
     TransportError}

\* The exceptions of the SDK: DocProcessError and its subclasses.
DocProcessErrors == {"DocProcessError", "AuthenticationError",
                     "InsufficientCreditsError", "RateLimitError"}

\* One pass of the loop body for attempt number attempt (from 0) meeting r:
\* "continue" (the loop goes on), "response" (the parsed body is returned)
\* or the exception that leaves _request.
request_attempt(attempt, max_retries, r) ==
    LET last == (attempt = max_retries - 1)
        \* except httpx.HTTPStatusError / httpx.RequestError
        caught == IF last THEN "DocProcessError" ELSE "continue"
    IN  IF r = TransportError THEN caught
        ELSE IF r.status = 401 THEN "AuthenticationError"
        ELSE IF r.status = 402
        THEN IF r.json THEN "InsufficientCreditsError" ELSE "JSONDecodeError"
        ELSE IF r.status = 429
        THEN IF r.retry_after = "date" THEN "ValueError"
             ELSE IF ~last THEN "continue" ELSE "RateLimitError"
        ELSE IF r.status >= 500
        THEN IF ~last THEN "continue" ELSE caught
        ELSE IF r.status >= 400 THEN caught
        ELSE IF r.json THEN "response" ELSE "JSONDecodeError"

\* A call of _request starts, on a client built with max_retries.
StartRequest(t, max_retries) ==
    /\ CanStart(t)
    /\ sess' = [sess EXCEPT ![t] =
                  [IdleSession EXCEPT !.op = "sdk_request",
                                      !.max_retries = max_retries,
                                      !.pc = "attempt"]]
    /\ UNCHANGED <<api_keys, usage_records, stripe_events, rowlock>>

\* One HTTP attempt and what the loop does with its outcome.
ClientAttempt(t, r) ==
    LET s == sess[t]
        outcome == request_attempt(s.attempts, s.max_retries, r)
    IN  /\ s.pc = "attempt"
        /\ s.attempts < s.max_retries
        /\ sess' = [sess EXCEPT
                      ![t].attempts = @ + 1,
                      ![t].response = <<r>>,
                      ![t].result = IF outcome = "continue" THEN "" ELSE outcome,
                      ![t].pc = IF outcome = "continue" THEN "attempt"
                                ELSE IF outcome = "response" THEN "returned"
                                ELSE "raised"]
        /\ UNCHANGED <<api_keys, usage_records, stripe_events, rowlock>>

\* The loop is over without a return or a raise: "Max retries exceeded".
ClientExhausted(t) ==
    /\ sess[t].pc = "attempt"
    /\ sess[t].attempts >= sess[t].max_retries
    /\ sess' = [sess EXCEPT ![t].result = "DocProcessError",
                            ![t].pc = "raised"]
    /\ UNCHANGED <<api_keys, usage_records, stripe_events, rowlock>>

ClientNext ==
    \/ \E t \in Txns, n \in 0..MaxRetries : StartRequest(t, n)
    \/ \E t \in Txns, r \in ClientResponses : ClientAttempt(t, r)
    \/ \E t \in Txns : ClientExhausted(t)

ClientSpec == Init /\ [][ClientNext]_vars

\* ------------------------------------------------- conversion requests only
\* The conversion endpoint with batches of up to MaxBatch sources, on an
\* account that can pay for any batch.
BatchCredits == MaxBatch * MaxPages * credits_per_page

BatchInit ==
    /\ api_keys = [k \in Keys |->
                      IF k = 1 THEN NewRow(Credential(1), BatchCredits, NoCustomer)
                      ELSE NoRow]
    /\ usage_records = {}
    /\ stripe_events = {}
    /\ rowlock = [k \in Keys |-> 0]
    /\ sess = [t \in Txns |-> IdleSession]

BatchNext ==
    \/ \E t \in Txns, n \in 1..MaxBatch : StartConvert(t, 1, n)
    \/ \E t \in Txns : ValidateFlush(t)
    \/ \E t \in Txns : Admit(t, "ok")
    \/ \E t \in Txns, results \in BatchResults : BackendResponds(t, results)
    \/ \E t \in Txns : Commit(t)
    \/ \E t \in Txns : Fail(t)

BatchSpec == BatchInit /\ [][BatchNext]_vars

\* ---------------------------------------- conversion requests, by attempt
\* The conversion endpoint with each backend call taken attempt by attempt.
RetryNext ==
    \/ \E t \in Txns, n \in 1..MaxSources : StartConvert(t, 1, n)
    \/ \E t \in Txns : ValidateFlush(t)
    \/ \E t \in Txns : Admit(t, "ok")
    \/ \E t \in Txns, outcome \in AttemptOutcomes : BackendAttempt(t, outcome)
    \/ \E t \in Txns : BackendReturns(t)
    \/ \E t \in Txns : Commit(t)
    \/ \E t \in Txns : Fail(t)

RetrySpec == Init /\ [][RetryNext]_vars

\* ===================================================================== claims
\* What the finished requests did, read off their closed records.
Committed(t) == sess[t].pc = "committed"
AllFinished == \A t \in Txns : sess[t].pc # "idle" => Finished(t)

RECURSIVE SumOver(_, _)
\* the sum of f[t] over t in 1..n
SumOver(f, n) == IF n = 0 THEN 0 ELSE SumOver(f, n - 1) + f[n]

\* credits the account was issued with
InitialCredits(k) ==
    IF k = 1 THEN InitCredits
    ELSE SumOver([t \in Txns |->
                    IF Committed(t) /\ sess[t].op = "create_key" /\ sess[t].key = k
                    THEN sess[t].amount ELSE 0], MaxTxns)
\* sum of the committed grants to the account (admin and webhook)
GrantedCredits(k) ==
    SumOver([t \in Txns |->
               IF /\ Committed(t) /\ sess[t].key = k
                  /\ \/ sess[t].op = "add_credits"
                     \/ sess[t].op = "webhook" /\ sess[t].result = "success"
               THEN sess[t].amount ELSE 0], MaxTxns)
\* sum of the committed positive grants to the account
PositiveGrants(k) ==
    SumOver([t \in Txns |->
               IF /\ Committed(t) /\ sess[t].key = k /\ sess[t].amount > 0
                  /\ \/ sess[t].op = "add_credits"
                     \/ sess[t].op = "webhook" /\ sess[t].result = "success"
               THEN sess[t].amount ELSE 0], MaxTxns)
\* sum of the amounts of the committed deductions that reported success
ChargedCredits(k) ==
    SumOver([t \in Txns |->
               IF /\ Committed(t) /\ sess[t].key = k /\ sess[t].op = "convert"
                  /\ sess[t].result = "ok"
               THEN sess[t].amount ELSE 0], MaxTxns)
\* sum of credits over the account's committed usage records
UsageCredits(k) ==
    SumOver([t \in Txns |->
               IF \E r \in usage_records : r.request_id = t /\ r.api_key_id = k
               THEN (CHOOSE r \in usage_records :
                        r.request_id = t /\ r.api_key_id = k).credits
               ELSE 0], MaxTxns)

\* C1: once every request has finished, each account's credits equal its
\* initial credits plus the committed grants minus the committed successful
\* deductions (no lost update).
C1_NoLostUpdate ==
    AllFinished =>
        \A k \in Keys :
            api_keys[k].exists =>
                api_keys[k].credits
                    = InitialCredits(k) + GrantedCredits(k) - ChargedCredits(k)

\* C2: the credits successfully charged to an account never exceed the
\* credits it had available (its initial credits and the credits granted to
\* it): two requests never both pass the check against a stale balance.
C2_NoOverdraw ==
    \A k \in Keys :
        ChargedCredits(k) <= InitialCredits(k) + PositiveGrants(k)

\* C3: in every committed state every account's credits is >= 0.
C3_CreditsNonNegative ==
    \A k \in Keys : api_keys[k].credits >= 0

\* C4: every committed successful deduction has exactly one usage record with
\* the charged amount, every usage record belongs to one, and each account's
\* credits_used equals the sum of credits over its usage records.
C4_ExactlyOnceUsage ==
    /\ \A t \in Txns :
          (Committed(t) /\ sess[t].op = "convert" /\ sess[t].result = "ok")
          <=> (\E r \in usage_records : r.request_id = t)
    /\ \A r \in usage_records :
          /\ r.credits = sess[r.request_id].amount
          /\ r.api_key_id = sess[r.request_id].key
          /\ \A q \in usage_records : q.request_id = r.request_id => q = r
    /\ \A k \in Keys : api_keys[k].credits_used = UsageCredits(k)

\* C5: the balance decrement, the counter increments and the usage record of
\* one deduction are persisted together or not at all: a request that has run
\* deduct_credits either commits its flushed columns and its usage record in
\* one step, or rolls back and leaves the committed tables as they were.
C5_AllOrNothing ==
    [][\A t \in Txns :
          (sess[t].op = "convert" /\ sess[t].usage # {} /\ sess'[t] # sess[t]) =>
              \/ /\ sess'[t].pc = "committed"
                 /\ usage_records' = usage_records \cup sess[t].usage
                 /\ {"credits", "credits_used"} \subseteq sess[t].written
                 /\ \A c \in sess[t].written :
                       api_keys'[sess[t].key][c] = sess[t].obj[c]
              \/ /\ sess'[t].pc = "rolledback"
                 /\ api_keys' = api_keys
                 /\ usage_records' = usage_records
                 /\ \A r \in usage_records' : r.request_id # t]_vars

\* C5 witness: a request failed after deduct_credits had run; no usage record
\* of it exists and the account is as it was.
C5_Witness ==
    \E t \in Txns :
        /\ sess[t].op = "convert" /\ sess[t].pc = "rolledback"
        /\ sess[t].result = "500" /\ sess[t].amount > 0
        /\ \A r \in usage_records : r.request_id # t
        /\ api_keys[sess[t].key].credits = InitCredits
        /\ api_keys[sess[t].key].credits_used = 0

\* C6: when the handler has priced the backend's answer, a charge above the
\* credits of the request's account object is refused with 402 and nothing
\* changes (no usage record, the committed row as it was); a charge that fits
\* reduces the object's credits by exactly the charge and adds one usage
\* record with that charge.
C6_RejectOrExactDeduct ==
    [][\A t \in Txns :
          (sess[t].pc = "backend" /\ sess'[t].pc # "backend"
           /\ sess'[t].result # "500") =>
              IF sess'[t].amount > sess[t].obj.credits
              THEN /\ sess'[t].result = "402"
                   /\ sess'[t].pc = "rolledback"
                   /\ sess'[t].usage = {}
                   /\ api_keys' = api_keys
                   /\ usage_records' = usage_records
              ELSE /\ sess'[t].result = "ok"
                   /\ sess'[t].obj.credits
                          = sess[t].obj.credits - sess'[t].amount
                   /\ sess'[t].obj.credits >= 0
                   /\ Cardinality(sess'[t].usage) = 1
                   /\ \A r \in sess'[t].usage :
                         /\ r.credits = sess'[t].amount
                         /\ r.request_id = t
                         /\ r.api_key_id = sess[t].key]_vars

\* C6 witness: one request was refused at pricing (charge 2, credits 1) and
\* left nothing; another was charged and committed one usage record.
C6_Witness ==
    \E t, u \in Txns :
        /\ sess[t].op = "convert" /\ sess[t].result = "402"
        /\ sess[t].amount > InitCredits
        /\ \A r \in usage_records : r.request_id # t
        /\ sess[u].op = "convert" /\ Committed(u) /\ sess[u].result = "ok"
        /\ sess[u].key = sess[t].key
        /\ api_keys[sess[u].key].credits = InitCredits - sess[u].amount
        /\ \E r \in usage_records :
              r.request_id = u /\ r.credits = sess[u].amount

\* the deliveries of event e that committed after processing it
Processed(e) ==
    {t \in Txns : /\ Committed(t) /\ sess[t].op = "webhook"
                  /\ sess[t].event = e /\ sess[t].result # "duplicate"}

\* C7: a delivery of an event that starts after an earlier delivery of it has
\* committed reports duplicate, and a delivery that reported duplicate changes
\* no account, no usage record and no dedup record.
C7_ReplayIsDuplicate ==
    [][\A u \in Txns :
          /\ (sess[u].pc = "idle" /\ sess'[u].op = "webhook"
              /\ Processed(sess'[u].event) # {})
                 => (sess'[u].result = "duplicate" /\ sess'[u].pc = "commit")
          /\ (sess[u].result = "duplicate" /\ sess'[u] # sess[u])
                 => /\ Finished(u)'
                    /\ api_keys' = api_keys
                    /\ usage_records' = usage_records
                    /\ stripe_events' = stripe_events]_vars

\* C7 witness: an event granting credits was delivered twice in a row; the
\* first delivery granted, the replay committed as duplicate, and the account
\* holds the grant once.
C7_Witness ==
    \E t, u \in Txns :
        /\ t # u /\ sess[t].event = sess[u].event
        /\ sess[t].op = "webhook" /\ Committed(t)
        /\ sess[t].result = "success" /\ sess[t].amount > 0
        /\ sess[u].op = "webhook" /\ Committed(u)
        /\ sess[u].result = "duplicate"
        /\ api_keys[sess[t].key].credits = InitCredits + sess[t].amount

\* C8: however deliveries of one event interleave, at most one of them
\* commits its processing and at most one dedup row exists for the event; if
\* any delivery of the event committed, exactly one committed processing; and
\* when the deliveries of the event are the only requests and all have
\* finished, the account holds the event's grant once if one of them
\* committed a grant, and not at all otherwise.
C8_ConcurrentAtMostOnce ==
    \A e \in Events :
        /\ Cardinality(Processed(e)) <= 1
        /\ Cardinality({r \in stripe_events : r.event_id = e}) <= 1
        /\ (\E t \in Txns : Committed(t) /\ sess[t].op = "webhook"
                            /\ sess[t].event = e)
              => Cardinality(Processed(e)) = 1
        /\ (/\ \A t \in Txns : Finished(t) /\ sess[t].op = "webhook"
                               /\ sess[t].event = e
            /\ e.api_key_id # NoKey /\ api_keys[e.api_key_id].exists)
              => api_keys[e.api_key_id].credits
                   = InitialCredits(e.api_key_id)
                     + (IF \E t \in Processed(e) : sess[t].result = "success"
                        THEN e.credits ELSE 0)

\* C8 witness: two deliveries of one granting event both passed the existence
\* check and both applied the grant to their object; one committed, the other
\* hit the unique index and was rolled back.
C8_Witness ==
    \E t, u \in Txns :
        /\ t # u /\ sess[t].event = sess[u].event
        /\ sess[t].op = "webhook" /\ Committed(t)
        /\ sess[t].result = "success" /\ sess[t].amount > 0
        /\ sess[u].op = "webhook" /\ sess[u].pc = "rolledback"
        /\ sess[u].result = "500 IntegrityError" /\ sess[u].amount > 0
        /\ api_keys[sess[t].key].credits = InitCredits + sess[t].amount

\* C9: a delivery whose dedup-record insert collides with an already recorded
\* event identifier is reported with outcome duplicate.
C9_CollisionIsDuplicate ==
    [][\A t \in Txns :
          (sess[t].pc = "record" /\ UniqueViolation(sess[t].event)
           /\ sess'[t].pc # "record" /\ sess'[t].result # "500")
              => sess'[t].result = "duplicate"]_vars

\* C10: a dedup record of an event is committed if and only if a delivery
\* that processed the event committed (record and side effects commit in one
\* transaction); a delivery that was rolled back leaves no record.
C10_RecordIffEffects ==
    /\ \A e \in Events :
          (\E r \in stripe_events : r.event_id = e) <=> Processed(e) # {}
    /\ \A r \in stripe_events :
          /\ r.id \in Processed(r.event_id)
          /\ sess[r.id].result \in {"success", "skipped", "ignored", "error"}
    /\ \A t \in Txns :
          sess[t].pc = "rolledback" => \A r \in stripe_events : r.id # t

\* C10 witness: a delivery failed after it had applied the grant to its
\* object; neither a dedup record of the event nor the grant is committed.
C10_Witness ==
    \E t \in Txns :
        /\ sess[t].op = "webhook" /\ sess[t].pc = "rolledback"
        /\ sess[t].result = "500" /\ sess[t].amount > 0
        /\ \A r \in stripe_events : r.event_id # sess[t].event
        /\ api_keys[sess[t].key].credits = InitCredits

\* ------------------------------------------------------ webhook deliveries
\* a delivery of a verified event
Verified(t) == sess[t].op = "webhook" /\ sess[t].event # NoEvent
Recorded(e) == \E r \in stripe_events : r.event_id = e

\* C11: every verified delivery that is not a duplicate and did not end in a
\* server error leaves a committed dedup record of its event, whatever the
\* event's type and metadata.
C11_DeliveryRecorded ==
    \A t \in Txns :
        (Verified(t) /\ Finished(t) /\ sess[t].result \notin {"duplicate", "500"})
            => Recorded(sess[t].event)

\* C12: a verified checkout event without account reference or with a
\* credit amount <= 0 is reported skipped, grants nothing, and once
\* committed is recorded.
C12_MalformedSkipped ==
    \A t \in Txns :
        (/\ Verified(t) /\ sess[t].event.type = CheckoutType
         /\ sess[t].event.numeric
         /\ (sess[t].event.api_key_id = NoKey \/ sess[t].event.credits <= 0)
         /\ sess[t].result \notin {"", "duplicate", "500", "500 IntegrityError"})
            => /\ sess[t].result = "skipped"
               /\ sess[t].amount = 0
               /\ sess[t].written = {}
               /\ Committed(t) => Recorded(sess[t].event)

\* C13: a delivery whose signature does not verify is answered 400 and is
\* not processed: its payload never becomes a session's event, no dedup
\* record of it exists, and the request ends rolled back having loaded and
\* changed nothing.
C13_InvalidSignatureRejected ==
    /\ \A t \in Txns : sess[t].event # ForgedEvent
    /\ ~Recorded(ForgedEvent)
    /\ \A t \in Txns :
          sess[t].result = "400 Invalid signature"
              => /\ sess[t].pc = "rolledback" /\ sess[t].event = NoEvent
                 /\ sess[t].obj = NoRow /\ sess[t].written = {}
                 /\ sess[t].evrow = {} /\ sess[t].amount = 0
    /\ (\A t \in Txns : sess[t].pc # "idle"
                            => sess[t].result = "400 Invalid signature")
          => api_keys = HookRows /\ stripe_events = {}

\* C13 witness: a forged delivery was answered 400; the tables are as they
\* were.
C13_Witness ==
    \E t \in Txns :
        /\ sess[t].op = "webhook" /\ sess[t].result = "400 Invalid signature"
        /\ sess[t].pc = "rolledback"
        /\ api_keys = HookRows /\ stripe_events = {}

\* C14: when a delivery of customer.subscription.deleted for a linked
\* customer commits with success, the account's subscription reference is
\* empty and its credits and usage counters are as before.
C14_SubscriptionCleared ==
    [][\A t \in Txns :
          (/\ sess[t].pc = "commit" /\ sess'[t].pc = "committed"
           /\ Verified(t) /\ sess[t].event.type = SubscriptionDeletedType
           /\ sess[t].result = "success")
              => /\ api_keys'[sess[t].key].stripe_subscription_id
                       = NoSubscription
                 /\ api_keys'[sess[t].key].credits
                       = api_keys[sess[t].key].credits
                 /\ api_keys'[sess[t].key].credits_used
                       = api_keys[sess[t].key].credits_used]_vars

\* C15: a verified event of any other type is reported ignored on its first
\* delivery, no step of its delivery changes an account, and once committed
\* it is recorded.
C15_OtherTypeIgnored ==
    [][\A t \in Txns :
          (/\ sess'[t].op = "webhook" /\ sess'[t].event # NoEvent
           /\ sess'[t].event.type \notin
                 {CheckoutType, InvoiceType, SubscriptionDeletedType}
           /\ sess'[t] # sess[t])
              => /\ api_keys' = api_keys
                 /\ sess'[t].key = NoKey /\ sess'[t].written = {}
                 /\ (sess[t].pc = "idle" /\ ~Recorded(sess'[t].event))
                       => (sess'[t].result = "ignored"
                           /\ sess'[t].pc = "record")
                 /\ (sess'[t].pc = "committed" /\ sess'[t].result = "ignored")
                       => \E r \in stripe_events' :
                             r.event_id = sess'[t].event]_vars

\* C15 witness: an event of another type was delivered and committed as
\* ignored; it is recorded and the accounts are as they were.
C15_Witness ==
    \E t \in Txns :
        /\ Verified(t) /\ sess[t].event.type = OtherType
        /\ Committed(t) /\ sess[t].result = "ignored"
        /\ Recorded(sess[t].event)
        /\ api_keys = HookRows

\* a request that has left the accounts as they were
Effectless(u) ==
    \/ sess[u].pc \in {"idle", "rolledback"}
    \/ /\ sess[u].pc = "committed" /\ sess[u].op = "webhook"
       /\ sess[u].result \in {"duplicate", "skipped", "ignored", "error"}

\* C16: when a delivery of a checkout event {account A, credits c > 0} has
\* committed its grant and no other request has changed the accounts, A's
\* credits are the initial credits plus c, A's other columns and the other
\* account are as they were.
C16_CheckoutGrantsExactly ==
    \A t \in Txns :
        (/\ Verified(t) /\ Committed(t) /\ sess[t].result = "success"
         /\ sess[t].event.type = CheckoutType /\ sess[t].event.credits > 0
         /\ \A u \in Txns \ {t} : Effectless(u))
            => api_keys = [HookRows EXCEPT
                             ![sess[t].event.api_key_id].credits
                                  = @ + sess[t].event.credits]

\* C16 witness: a checkout event for account 1 was delivered twice; the
\* first delivery granted, the redelivery was a duplicate, and account 1
\* holds the grant once.
C16_Witness ==
    \E t, u \in Txns :
        /\ Verified(t) /\ Committed(t) /\ sess[t].result = "success"
        /\ sess[t].event.type = CheckoutType /\ sess[t].event.credits > 0
        /\ sess[t].event.api_key_id = 1
        /\ Committed(u) /\ sess[u].result = "duplicate"
        /\ api_keys[1].credits = InitCredits + sess[t].event.credits
        /\ api_keys[2] = HookRows[2]

\* ----------------------------------------------------- conversion requests
\* C17: a conversion request all of whose backend calls failed (no source
\* converted: documents = 0) is never charged: it has no usage record,
\* pending or committed, and is not reported as a success.
C17_BackendFailureNotCharged ==
    /\ \A r \in usage_records : r.documents > 0
    /\ \A t \in Txns :
          /\ \A r \in sess[t].usage : r.documents > 0
          /\ (sess[t].op = "convert" /\ sess[t].result = "ok")
                => sess[t].obj.documents_processed > 0
                   \/ sess[t].pc \in {"committed", "rolledback"}

\* ----------------------------------------------------------- key directory
\* c is p with exactly one character of the secret changed
DiffersInSecretChar(c, p) ==
    /\ Len(c) = Len(p)
    /\ \E i \in (Len(p) - SecretLen + 1)..Len(p) :
          /\ c[i] # p[i]
          /\ \A j \in 1..Len(p) : j # i => c[j] = p[j]

\* the plaintexts handed out: that of the account present at the start and
\* those returned by the committed create_key requests
IssuedKeys ==
    {[key |-> 1, plaintext |-> Credential(1)]}
    \cup {[key |-> sess[u].key, plaintext |-> sess[u].credential] :
            u \in {v \in Txns : Committed(v) /\ sess[v].op = "create_key"}}

\* C18: validate_key with the plaintext returned by create_key loads the
\* account that was created; with a credential that differs from it in one
\* character of the secret it finds no account (401).
C18_CredentialRoundTrip ==
    [][\A t \in Txns :
          (sess[t].pc = "idle" /\ sess'[t].op = "convert") =>
              \A i \in IssuedKeys :
                  /\ sess'[t].credential = i.plaintext
                        => /\ sess'[t].pc = "validate_flush"
                           /\ sess'[t].key = i.key
                           /\ sess'[t].obj = api_keys[i.key]
                           /\ sess'[t].obj.exists
                  /\ DiffersInSecretChar(sess'[t].credential, i.plaintext)
                        => /\ sess'[t].pc = "rolledback"
                           /\ sess'[t].result = "401"
                           /\ sess'[t].obj = NoRow]_vars

\* C18 witness: a key was issued with a secret of its own and a request
\* presenting the returned plaintext was authenticated as that account.
C18_Witness ==
    \E u, t \in Txns :
        /\ Committed(u) /\ sess[u].op = "create_key"
        /\ sess[u].credential # Credential(sess[u].key)
        /\ sess[t].op = "convert" /\ sess[t].credential = sess[u].credential
        /\ sess[t].key = sess[u].key /\ sess[t].pc = "admit"

\* C19: a request that presents the credential of an account whose
\* deactivation is committed is answered 401 at once: no account is loaded,
\* the backend is not called and nothing is deducted; and every request
\* that reaches the backend or a deduction loaded an active account.
C19_DeactivatedRejected ==
    [][\A t \in Txns :
          /\ (/\ sess[t].pc = "idle" /\ sess'[t].op = "convert"
               /\ sess'[t].key # NoKey
               /\ api_keys[sess'[t].key].exists
               /\ ~api_keys[sess'[t].key].is_active)
                 => /\ sess'[t].pc = "rolledback" /\ sess'[t].result = "401"
                    /\ sess'[t].obj = NoRow /\ sess'[t].usage = {}
                    /\ UNCHANGED <<api_keys, usage_records>>
          /\ (sess'[t].op = "convert"
               /\ sess'[t].pc \in {"validate_flush", "admit", "backend",
                                    "commit"})
                 => sess'[t].obj.is_active]_vars

\* C19 witness: account 1 was deactivated and a later request with its
\* credential was answered 401; no usage record of that request exists.
C19_Witness ==
    \E u, t \in Txns :
        /\ sess[u].op = "deactivate" /\ Committed(u) /\ sess[u].key = 1
        /\ u < t /\ sess[t].op = "convert" /\ sess[t].key = 1
        /\ sess[t].result = "401" /\ sess[t].pc = "rolledback"
        /\ ~api_keys[1].is_active
        /\ \A r \in usage_records : r.request_id # t

\* ------------------------------------------------- request state machine
\* The stages of a conversion request, by the session's position:
\* "validate_flush" the key is found and authentication is finishing,
\* "admit" Authenticated, "backend" Admitted and the backend invoked,
\* "commit" Priced, "committed" Committed, "rolledback" Rejected.
StageSteps ==
    {<<"idle", "validate_flush">>, <<"idle", "rolledback">>,
     <<"validate_flush", "admit">>, <<"validate_flush", "rolledback">>,
     <<"admit", "backend">>, <<"admit", "rolledback">>,
     <<"backend", "commit">>, <<"backend", "rolledback">>,
     <<"commit", "committed">>, <<"commit", "rolledback">>}

\* session t's request takes a step
Moves(t) == sess'[t] # sess[t] /\ sess'[t].op = "convert"

\* the step charges session t's object or adds its usage record to the
\* session (a session that ends drops both)
Deducts(t) ==
    /\ ~Finished(t)'
    /\ \/ sess[t].pc # "idle" /\ sess'[t].obj.credits # sess[t].obj.credits
       \/ sess'[t].usage # sess[t].usage

\* the step makes session t's usage record durable
Settles(t) == \E r \in usage_records' \ usage_records : r.request_id = t

C21_NoLockDuringBackend ==
    \A t \in Txns :
        (sess[t].op = "convert" /\ sess[t].pc \in {"admit", "backend"})
            => /\ sess[t].written = {}
               /\ rowlock[sess[t].key] # t

\* the answers of a rejected conversion request: authentication failure,
\* insufficient credits, rate-limit denial, oversized upload
Rejections == {"401", "402", "429", "413"}

\* C22: the step that rejects a conversion request (401, 402, 429 or 413)
\* leaves the persisted accounts and usage records as they were, and every
\* step that changes a persisted account or adds a usage record is the
\* commit of some request.
C22_RejectedLeavesStateUnchanged ==
    [][/\ \A t \in Txns :
            (/\ ~Finished(t) /\ Finished(t)'
             /\ sess'[t].op = "convert" /\ sess'[t].pc = "rolledback"
             /\ sess'[t].result \in Rejections)
                => UNCHANGED <<api_keys, usage_records>>
       /\ (api_keys' # api_keys \/ usage_records' # usage_records)
             => \E t \in Txns : sess[t].pc = "commit"
                                /\ sess'[t].pc = "committed"]_vars

\* C22 witness: one request was denied by the limiter after its
\* last_used update was flushed, another was rejected for insufficient
\* credits after the backend answered, and the account and the usage
\* records are those of the start.
C22_Witness ==
    \E t, u \in Txns :
        /\ sess[t].op = "convert" /\ sess[t].pc = "rolledback"
        /\ sess[t].result = "429"
        /\ sess[u].op = "convert" /\ sess[u].pc = "rolledback"
        /\ sess[u].result = "402" /\ sess[u].amount > 0
        /\ api_keys[1] = NewRow(Credential(1), InitCredits, NoCustomer)
        /\ usage_records = {}

\* C23: in every step that changes the persisted accounts, no account's
\* credits_used, documents_processed or pages_processed decreases.
C23_CountersMonotonic ==
    [][\A k \in Keys :
          api_keys[k].exists =>
              /\ api_keys'[k].credits_used >= api_keys[k].credits_used
              /\ api_keys'[k].documents_processed
                    >= api_keys[k].documents_processed
              /\ api_keys'[k].pages_processed >= api_keys[k].pages_processed]_vars

\* ------------------------------------------------------------------ pricing
\* the price of a page count, written out
Price(pages) ==
    IF pages * credits_per_page >= min_credits_per_document
    THEN pages * credits_per_page ELSE min_credits_per_document

\* the usage rows of the conversion requests, pending and committed
ConvertUsage == usage_records \cup UNION {sess[t].usage : t \in Txns}

\* C24: the charge of a request is max(pages * credits_per_page,
\* min_credits_per_document): so is every usage row's credits for its
\* pages and every refused price; 0 pages are charged the minimum and 50
\* pages, at 1 credit per page and a minimum of 1, are charged 50.
C24_ChargeIsMaxOfPagesAndMinimum ==
    /\ \A r \in ConvertUsage : r.credits = Price(r.pages)
    /\ \A t \in Txns :
          (sess[t].op = "convert" /\ sess[t].amount # 0)
              => \E pages \in 0..(MaxBatch * MaxPages) :
                    sess[t].amount = Price(pages)
    /\ \A pages \in 0..50 : _calculate_credits(pages) = Price(pages)
    /\ _calculate_credits(0) = min_credits_per_document
    /\ (credits_per_page = 1 /\ min_credits_per_document = 1)
          => _calculate_credits(50) = 50

\* C24 witness: a request of 0 pages was charged the minimum and a request
\* of more pages than the minimum was charged its pages.
C24_Witness ==
    \E r, q \in usage_records :
        /\ r.pages = 0 /\ r.documents > 0
        /\ r.credits = min_credits_per_document
        /\ q.pages * credits_per_page > min_credits_per_document
        /\ q.credits = q.pages * credits_per_page

\* ------------------------------------------------------------------ batches
RECURSIVE SuccessPages(_, _)
\* the pages of the converted sources among the first n entries of a response
SuccessPages(resp, n) ==
    IF n = 0 THEN 0
    ELSE SuccessPages(resp, n - 1)
         + (IF resp[n].status = "success" THEN resp[n].pages ELSE 0)

\* the number of converted sources of a response
Successes(resp) ==
    Cardinality({i \in 1..Len(resp) : resp[i].status = "success"})

C26_DeactivationIrreversible ==
    [][\A k \in Keys :
          api_keys[k].exists =>
              /\ api_keys'[k].exists
              /\ ~api_keys[k].is_active => ~api_keys'[k].is_active]_vars

\* C26 witness: account 1 was deactivated, a grant to it was committed as
\* well, and the account is there and inactive.
C26_Witness ==
    \E u, t \in Txns :
        /\ sess[u].op = "deactivate" /\ Committed(u) /\ sess[u].key = 1
        /\ sess[t].op = "add_credits" /\ Committed(t) /\ sess[t].key = 1
        /\ api_keys[1].exists /\ ~api_keys[1].is_active
        /\ api_keys[1].credits > InitCredits

\* ------------------------------------------------------------------- grants
\* the columns of an account other than credits
OtherColumns == Columns \ {"credits"}

\* C27: an add-credits request with an amount <= 0 is refused (400) and
\* changes nothing; with an amount > 0 on an existing account, active or
\* not, it is accepted, raises the credits of the account it loaded by
\* exactly the amount and commits that with no other column changed (when
\* nothing else was committed to the account meanwhile, the persisted
\* credits grow by exactly the amount); only a missing account is a 404.
C27_GrantRejectsNonPositive ==
    [][\A t \in Txns :
          LET a == sess'[t].amount
              k == sess'[t].key
          IN  /\ (sess[t].pc = "idle" /\ sess'[t].op = "add_credits") =>
                    /\ UNCHANGED <<api_keys, usage_records>>
                    /\ a <= 0 => sess'[t].pc = "rolledback"
                                 /\ sess'[t].result = "400"
                    /\ (a > 0 /\ api_keys[k].exists)
                          => sess'[t].pc = "grant_flush"
                             /\ sess'[t].obj = api_keys[k]
                    /\ (a > 0 /\ ~api_keys[k].exists)
                          => sess'[t].pc = "rolledback"
                             /\ sess'[t].result = "404"
              /\ (sess[t].pc = "grant_flush" /\ sess'[t].pc = "commit") =>
                    /\ sess[t].amount > 0
                    /\ sess'[t].obj
                          = [sess[t].obj EXCEPT !.credits = @ + sess[t].amount]
                    /\ sess'[t].written = {"credits"}
              /\ (sess[t].op = "add_credits" /\ sess[t].pc = "commit"
                  /\ sess'[t].pc = "committed") =>
                    /\ api_keys'[k].credits = sess[t].obj.credits
                    /\ api_keys[k].credits = sess[t].obj.credits - sess[t].amount
                          => api_keys'[k].credits = api_keys[k].credits + a
                    /\ \A c \in OtherColumns : api_keys'[k][c] = api_keys[k][c]
                    /\ \A j \in Keys \ {k} : api_keys'[j] = api_keys[j]
                    /\ usage_records' = usage_records]_vars

\* C27 witness: a grant of a non-positive amount was refused, and a grant
\* of a positive amount to account 1 was committed and raised its credits
\* by that amount, its counters untouched.
C27_Witness ==
    \E u, t \in Txns :
        /\ sess[u].op = "add_credits" /\ sess[u].result = "400"
        /\ sess[u].amount <= 0 /\ sess[u].pc = "rolledback"
        /\ sess[t].op = "add_credits" /\ Committed(t) /\ sess[t].key = 1
        /\ sess[t].amount > 0
        /\ api_keys[1].credits = InitCredits + sess[t].amount
        /\ api_keys[1].credits_used = 0

\* ------------------------------------------------------------------ retries
\* C28: every backend call of a request took between 1 and 3 attempts, and
\* a call became an error result only after its 3rd attempt failed; while
\* attempts are still being made the request has charged nothing (no usage
\* row, no write but last_used); a request that has priced or committed
\* has a result for every source; and no request has more than one usage
\* record, pending or committed.
C28_RetriesBoundedBeforeCharge ==
    \A t \in Txns :
        LET s == sess[t]
        IN  /\ s.attempts < stop_after_attempt
            /\ \A i \in 1..Len(s.gathered) :
                  /\ s.gathered[i].attempts \in 1..stop_after_attempt
                  /\ s.gathered[i].status = "error"
                        => s.gathered[i].attempts = stop_after_attempt
            /\ (s.op = "convert" /\ s.pc = "backend")
                  => /\ s.usage = {} /\ s.written \subseteq {"last_used"}
                     /\ s.amount = 0
                     /\ \A r \in usage_records : r.request_id # t
            /\ (s.usage # {} \/ \E r \in usage_records : r.request_id = t)
                  => /\ s.attempts = 0
                     /\ Len(s.gathered) = s.sources
            /\ Cardinality(s.usage
                     \cup {r \in usage_records : r.request_id = t}) <= 1

\* C28 witness: a request whose backend call failed twice and succeeded
\* at the third attempt has been priced and has exactly one usage record.
C28_Witness ==
    \E t \in Txns :
        /\ sess[t].pc = "commit" /\ sess[t].op = "convert"
        /\ Len(sess[t].gathered) = 1
        /\ sess[t].gathered[1].attempts = stop_after_attempt
        /\ sess[t].gathered[1].status = "success"
        /\ Cardinality(sess[t].usage) = 1
        /\ \A r \in usage_records : r.request_id # t

\* --------------------------------------------------------------- validation
\* C29: a validation that finds no account loads nothing and changes no
\* table; one that finds an account changes, on the request's object, only
\* last_used and flushes only that column; and when a request that did
\* nothing but validate commits, the persisted account differs in
\* last_used only, and no other account and no usage record changes.
C29_ValidateWritesOnlyLastUsed ==
    [][\A t \in Txns :
          /\ (sess[t].pc = "idle" /\ sess'[t].pc = "rolledback"
              /\ sess'[t].result = "401")
                => /\ UNCHANGED <<api_keys, usage_records, stripe_events>>
                   /\ sess'[t].obj = NoRow /\ sess'[t].written = {}
          /\ (sess[t].pc = "validate_flush" /\ sess'[t].pc = "admit")
                => /\ UNCHANGED <<api_keys, usage_records, stripe_events>>
                   /\ sess'[t].written = {"last_used"}
                   /\ \A c \in Columns \ {"last_used"} :
                         sess'[t].obj[c] = sess[t].obj[c]
          /\ (sess[t].op = "stats" /\ sess[t].pc = "commit"
              /\ sess'[t].pc = "committed")
                => /\ \A c \in Columns \ {"last_used"} :
                         api_keys'[sess[t].key][c] = api_keys[sess[t].key][c]
                   /\ api_keys'[sess[t].key].last_used = sess[t].obj.last_used
                   /\ \A j \in Keys \ {sess[t].key} : api_keys'[j] = api_keys[j]
                   /\ UNCHANGED <<usage_records, stripe_events>>]_vars

\* C29 witness: a request with a wrong credential was answered 401, a
\* request with account 1's credential validated and committed, and
\* account 1 is as at the start but for its last_used.
C29_Witness ==
    \E u, t \in Txns :
        /\ sess[u].pc = "rolledback" /\ sess[u].result = "401"
        /\ sess[t].op = "stats" /\ Committed(t) /\ sess[t].key = 1
        /\ api_keys[1].last_used = t
        /\ api_keys[1] = [NewRow(Credential(1), InitCredits, NoCustomer)
                             EXCEPT !.last_used = t]
        /\ usage_records = {}

\* ------------------------------------------------- authentication failures
\* the ways a presented credential fails validation
UnknownIdentifier(credential) ==
    \A k \in Keys :
        api_keys[k].exists => SubSeq(credential, 1, Len(generate_key_id(k)))
                                 # generate_key_id(k)
WrongSecret(credential) ==
    \E k \in Keys :
        /\ api_keys[k].exists
        /\ SubSeq(credential, 1, Len(generate_key_id(k))) = generate_key_id(k)
        /\ api_keys[k].key_hash # hash_key(credential)
Deactivated(credential) ==
    \E k \in Keys :
        /\ api_keys[k].exists /\ ~api_keys[k].is_active
        /\ api_keys[k].key_hash = hash_key(credential)

\* C30: a request whose credential has an unknown identifier, a wrong
\* secret, or is the credential of a deactivated account gets the same
\* answer in all three cases: the record of the rejected request is the
\* 401 record, which holds nothing but what the caller presented.
C30_AuthFailuresIndistinguishable ==
    [][\A t \in Txns :
          (/\ sess[t].pc = "idle" /\ sess'[t].op = "convert"
           /\ \/ UnknownIdentifier(sess'[t].credential)
              \/ WrongSecret(sess'[t].credential)
              \/ Deactivated(sess'[t].credential))
              => sess'[t] = [IdleSession EXCEPT
                                !.op = "convert",
                                !.credential = sess'[t].credential,
                                !.pc = "rolledback",
                                !.result = "401"]]_vars

\* C30 witness: account 1 was deactivated and its own credential was then
\* answered 401.
C30_Witness ==
    \E u, t \in Txns :
        /\ sess[u].op = "deactivate" /\ Committed(u) /\ sess[u].key = 1
        /\ sess[t].op = "convert" /\ sess[t].credential = Credential(1)
        /\ sess[t].pc = "rolledback" /\ sess[t].result = "401"
        /\ api_keys[1].key_hash = hash_key(sess[t].credential)
        /\ ~api_keys[1].is_active

\* ------------------------------------------------------------- disclosure
\* sub occurs in seq as a run of consecutive entries
Contains(seq, sub) ==
    \E i \in 1..(Len(seq) - Len(sub) + 1) :
        SubSeq(seq, i, i + Len(sub) - 1) = sub

\* the fields of an account's usage as the read routes return it
UsageFields == {"key_id", "credits_remaining", "credits_used",
                "documents_processed", "pages_processed", "last_used"}

\* the operations that read accounts back
ReadOps == {"me", "key_details", "list_keys"}

\* C31: the issuing request hands out the plaintext whose digest its row
\* holds; every account row, persisted or pending, holds the digest of a
\* credential and not a credential; and the response of a later read (current
\* usage, key details, list of keys) has the usage fields only, none of
\* which is a credential or contains a secret.
C31_PlaintextDisclosedOnce ==
    /\ \A k \in Keys :
          api_keys[k].exists
              => /\ api_keys[k].key_hash \notin Credentials
                 /\ \E c \in Credentials : api_keys[k].key_hash = hash_key(c)
    /\ \A t \in Txns :
          /\ (sess[t].op = "create_key" /\ sess[t].pc = "commit")
                => /\ sess[t].credential \in Credentials
                   /\ sess[t].obj.key_hash = hash_key(sess[t].credential)
                   /\ sess[t].obj.key_hash \notin Credentials
          /\ (sess[t].op = "create_key" /\ sess[t].pc = "committed")
                => api_keys[sess[t].key].key_hash
                      = hash_key(sess[t].credential)
          /\ sess[t].op \in ReadOps
                => \A i \in 1..Len(sess[t].response) :
                      /\ DOMAIN sess[t].response[i] = UsageFields
                      /\ sess[t].response[i].key_id \notin Credentials
                      /\ \A secret \in Secrets :
                            ~Contains(sess[t].response[i].key_id, secret)

\* C31 witness: a key was issued with a secret of its own, and a later
\* request for the details of that account has its response.
C31_Witness ==
    \E u, t \in Txns :
        /\ Committed(u) /\ sess[u].op = "create_key"
        /\ sess[u].credential # Credential(sess[u].key)
        /\ sess[t].op = "key_details" /\ sess[t].pc = "commit"
        /\ sess[t].key = sess[u].key
        /\ Len(sess[t].response) = 1
        /\ sess[t].response[1].key_id = generate_key_id(sess[u].key)

\* ------------------------------------------------------ insert-only tables
\* C32: usage records and processed-event records are insert-only: in every
\* step, each committed record of either table is still there with the same
\* field values afterwards.
C32_RecordsInsertOnly ==
    [][/\ \A r \in usage_records : r \in usage_records'
       /\ \A r \in stripe_events : r \in stripe_events']_vars

\* C32 witness: a usage record and an event record are both committed, so
\* the earlier of the two has outlived the other request's steps and commit.
C32_Witness ==
    \E t, u \in Txns :
        /\ t # u /\ Committed(t) /\ Committed(u)
        /\ \E r \in usage_records : r.request_id = t
        /\ \E r \in stripe_events : r.id = u

\* ----------------------------------------------------- the credits gate
\* where a route's body is: admitted, or waiting for the backend
BodyStages == {"admit", "backend", "submit"}

\* C33: a request whose account has no credits (credits <= 0) when
\* get_current_api_key checks it ends there: its next step closes it rolled
\* back with 402 (500 if the request itself failed first), no table changes
\* and it has created no checkout session; and no request is ever in a
\* route's body, or creates a checkout session, unless the dependency saw
\* credits > 0.
C33_NoCreditsRejectedBeforeBody ==
    [][\A t \in Txns :
          /\ (/\ sess[t].pc = "validate_flush"
              /\ sess[t].obj.credits <= 0
              /\ sess'[t] # sess[t])
                => /\ sess'[t].pc = "rolledback"
                   /\ sess'[t].result \in {"402", "500"}
                   /\ sess'[t].checkout = {}
                   /\ UNCHANGED <<api_keys, usage_records, stripe_events>>
          /\ sess'[t].pc \in BodyStages => sess'[t].obj.credits > 0
          /\ (sess[t].checkout = {} /\ sess'[t].checkout # {})
                => sess[t].pc = "admit" /\ sess[t].obj.credits > 0]_vars

\* C33 witness: a request was refused with 402 by the dependency (nothing
\* was priced) for an account whose committed credits are 0.
C33_Witness ==
    \E t \in Txns :
        /\ sess[t].pc = "rolledback" /\ sess[t].result = "402"
        /\ sess[t].op = "convert" /\ sess[t].amount = 0
        /\ sess[t].key # NoKey
        /\ api_keys[sess[t].key].exists
        /\ api_keys[sess[t].key].credits <= 0

\* ------------------------------------------- charges and deactivation
\* C34: no deduction is committed against an account that is inactive at
\* commit time: whenever a request commits a usage record (and with it its
\* decrement of credits), the account's committed row is active.
C34_NoChargeOnInactiveAccount ==
    [][\A t \in Txns :
          (/\ sess[t].pc = "commit" /\ sess'[t].pc = "committed"
           /\ sess[t].usage # {})
              => api_keys[sess[t].key].is_active]_vars

\* ------------------------------------------------ purchase round trip
\* webhook t handles the completion of the Checkout session that request u
\* created with metadata m, and is not a redelivery
Completes(t, u, m) ==
    /\ sess[u].checkout = {m}
    /\ sess[t].op = "webhook"
    /\ sess[t].event = CompletedEvent(m)
    /\ sess[t].result # "duplicate"

\* C35: the completion event of the Checkout session that
\* create_checkout_session(A, p) created is processed as a grant to A of
\* CREDIT_PACKAGES[p].credits: the handler loads A, reports success with that
\* amount, and its commit raises A's credits by exactly that amount and
\* changes no other account.
C35_PurchaseGrantsPackageToBuyer ==
    [][\A t, u \in Txns : \A m \in sess[u].checkout :
          Completes(t, u, m)
             => /\ m = checkout_metadata(sess[u].key, m.package)
                /\ sess[t].pc \in {"hook_select", "hook_flush", "record",
                                   "commit", "committed"}
                      => sess[t].key = sess[u].key
                /\ sess[t].pc \in {"record", "commit", "committed"}
                      => /\ sess[t].result = "success"
                         /\ sess[t].amount = CREDIT_PACKAGES[m.package].credits
                /\ (sess[t].pc = "commit" /\ sess'[t].pc = "committed")
                      => /\ api_keys'[sess[u].key].credits
                               = api_keys[sess[u].key].credits
                                 + CREDIT_PACKAGES[m.package].credits
                         /\ \A k \in Keys \ {sess[u].key} :
                               api_keys'[k] = api_keys[k]]_vars

\* C35 witness: account 2 bought the business package and the completion
\* of its Checkout session is committed: its credits are the initial ones
\* plus 5000, account 1's are untouched.
C35_Witness ==
    \E t, u \in Txns :
        /\ Completes(t, u, checkout_metadata(2, "business"))
        /\ Committed(t)
        /\ api_keys[2].credits
              = InitCredits + CREDIT_PACKAGES["business"].credits
        /\ api_keys[1].credits = InitCredits

\* ------------------------------------------------- job submission's frame
\* the ledger columns of an account
LedgerColumns == {"credits", "credits_used", "documents_processed",
                  "pages_processed"}
\* the ledger part of the committed accounts
Ledger(rows) == [k \in Keys |-> [c \in LedgerColumns |-> rows[k][c]]]

\* C36: no step of a job submission (its admission, minimum-credits
\* refusal, backend answer or failure, commit or rollback) changes any
\* account's credits or counters or adds a usage record, and the submission
\* never has such a change pending.
C36_SubmissionLeavesLedgerAlone ==
    [][\A t \in Txns :
          (sess'[t] # sess[t] /\ sess'[t].op = "submit_async")
             => /\ Ledger(api_keys') = Ledger(api_keys)
                /\ usage_records' = usage_records
                /\ sess'[t].usage = {}
                /\ sess'[t].written \cap LedgerColumns = {}]_vars

\* C36 witness: one submission was accepted and is committed, another was
\* refused for too few credits, and the account's ledger is as at the start.
C36_Witness ==
    \E t, u \in Txns :
        /\ sess[t].op = "submit_async" /\ Committed(t)
        /\ sess[t].result = "ok"
        /\ sess[u].op = "submit_async" /\ sess[u].pc = "rolledback"
        /\ sess[u].result = "402" /\ sess[u].key = sess[t].key
        /\ Ledger(api_keys)[sess[t].key]
              = Ledger([k \in Keys |-> NewRow(Credential(k), InitCredits,
                                              NoCustomer)])[sess[t].key]
        /\ usage_records = {}

\* ------------------------------------------------------ the SDK's retries
\* the call of session t made an attempt in this step
Attempted(t) ==
    /\ sess[t].op = "sdk_request"
    /\ sess'[t].attempts = sess[t].attempts + 1
\* the call of session t is over
Ended(t) == sess[t].pc \in {"returned", "raised"}

\* C37: a call of _request makes at most max_retries attempts and ends with
\* the parsed response or a DocProcessError; a 401 or 402 ends it at the
\* attempt that meets it; and the call goes on after an attempt only if
\* that attempt met a 429, a status >= 500 or a transport error.
C37_RequestRetriesOnlyTransient ==
    [][\A t \in Txns :
          /\ sess'[t].op = "sdk_request"
                => /\ sess'[t].attempts <= sess'[t].max_retries
                   /\ Ended(t)'
                         => sess'[t].result \in DocProcessErrors \cup {"response"}
          /\ Attempted(t)
                => LET r == sess'[t].response[1]
                   IN  /\ r.status \in {401, 402} => Ended(t)'
                       /\ ~Ended(t)' => \/ r = TransportError
                                        \/ r.status = 429
                                        \/ r.status >= 500]_vars

====
